---- MODULE Spec2Model ----
(***************************************************************************)
(* A model of snap-analog's log analyzer: the bounded-memory TopKTracker   *)
(* (src/src/log_analyzer.py), its field validators and the single-pass     *)
(* pipeline analyze_log_optimized.                                         *)
(*                                                                         *)
(* Python values are modelled as follows.  A str is a TLA+ string.  A dict *)
(* (dict, defaultdict, Counter) is the sequence of its <<key, value>>      *)
(* pairs in insertion order, which is the order Python iterates it in.  A  *)
(* list is a sequence (1-based here, 0-based in Python).  A tuple is a     *)
(* tuple.  A raised exception is a record [exc |-> <type name>].           *)
(***************************************************************************)
EXTENDS Integers, Sequences, FiniteSets, Bags, TLC

VARIABLES
    \* a TopKTracker instance driven on its own (SpecTracker)
    tracker,
    true_count,     \* history: item -> number of add(item) calls so far
    prune_hits,     \* history: item -> number of times prune deleted it
    lost,           \* history: item -> total count prune deleted for it
    max_lost,       \* history: item -> largest count one prune deleted for it
    entered,        \* history: item -> insertion_counter when it last entered the heap
    \* one run of analyze_log_optimized (Spec)
    pc,             \* INIT, STREAMING, FINALIZE, DONE, ABORTED ("-" when no run)
    file,           \* the file at filepath: [exists, readable, size]
    memory_mode, limits, use_top_k,
    total_requests, total_lines_processed,
    total_size, size_count, min_size, max_size,
    failed_attempts,
    ips_tracker, urls_tracker, minutes_tracker,
    ips_counter, urls_counter, minutes_counter,
    statuses, status_groups, methods,
    result,         \* the dict the function returns, <<>> before it returns
    accepted        \* history: the bag of (ip, path, minute) of the lines that
                    \* incremented total_requests

tvars == <<tracker, true_count, prune_hits, lost, max_lost, entered>>

locals == <<memory_mode, limits, use_top_k, total_requests, total_lines_processed,
            total_size, size_count, min_size, max_size, failed_attempts,
            ips_tracker, urls_tracker, minutes_tracker,
            ips_counter, urls_counter, minutes_counter,
            statuses, status_groups, methods>>

pvars == <<pc, file, locals, result, accepted>>

vars == <<tvars, pvars>>

-----------------------------------------------------------------------------
(* Bounds of the model. *)

\* the largest capacity k a stand-alone tracker is created with
MaxK == 3

\* the number of add calls made on the stand-alone tracker
MaxAdds == 6

\* the items fed to the stand-alone tracker
Items == {"a", "b", "c", "d"}

\* the percent arguments prune is called with (5 and 20 are the pipeline's,
\* 10 is the default of the signature)
PrunePercents == {5, 10, 20, 50, 100}

-----------------------------------------------------------------------------
(* Python built-ins. *)

Max(a, b) == IF a >= b THEN a ELSE b

Min(a, b) == IF a <= b THEN a ELSE b

\* ord(c) for the characters that occur in the model's strings
CodePoint(c) ==
    CASE c = " " -> 32 [] c = "#" -> 35 [] c = "+" -> 43 [] c = "-" -> 45
      [] c = "." -> 46 [] c = "/" -> 47
      [] c = "0" -> 48 [] c = "1" -> 49 [] c = "2" -> 50 [] c = "3" -> 51
      [] c = "4" -> 52 [] c = "5" -> 53 [] c = "6" -> 54 [] c = "7" -> 55
      [] c = "8" -> 56 [] c = "9" -> 57 [] c = ":" -> 58
      [] c = "a" -> 97 [] c = "b" -> 98 [] c = "c" -> 99 [] c = "d" -> 100
      [] c = "e" -> 101 [] c = "g" -> 103 [] c = "h" -> 104 [] c = "i" -> 105
      [] c = "l" -> 108 [] c = "m" -> 109 [] c = "n" -> 110 [] c = "o" -> 111
      [] c = "t" -> 116 [] c = "x" -> 120

\* str.__lt__: lexicographic by code point, a proper prefix is smaller
RECURSIVE StrLT(_, _)
StrLT(s, t) ==
    IF Len(t) = 0 THEN FALSE
    ELSE IF Len(s) = 0 THEN TRUE
    ELSE LET a == CodePoint(SubSeq(s, 1, 1))
             b == CodePoint(SubSeq(t, 1, 1))
         IN  IF a # b THEN a < b ELSE StrLT(Tail(s), Tail(t))

\* tuple.__lt__ on (count, insertion order, item) heap entries
TupleLT(x, y) ==
    \/ x[1] < y[1]
    \/ x[1] = y[1] /\ x[2] < y[2]
    \/ x[1] = y[1] /\ x[2] = y[2] /\ StrLT(x[3], y[3])

\* the keys of a dict, in insertion order
DictKeys(d) == [i \in 1..Len(d) |-> d[i][1]]

DictKeySet(d) == {d[i][1] : i \in 1..Len(d)}

\* d.get(key, 0), which is also d[key] of a defaultdict(int) or a Counter
DictGet(d, key) ==
    IF key \in DictKeySet(d)
    THEN LET i == CHOOSE j \in 1..Len(d) : d[j][1] = key IN d[i][2]
    ELSE 0

\* d[key] += 1 on a defaultdict(int) or a Counter: a new key goes last
DictIncr(d, key) ==
    IF key \in DictKeySet(d)
    THEN [i \in 1..Len(d) |-> IF d[i][1] = key THEN <<key, d[i][2] + 1>> ELSE d[i]]
    ELSE Append(d, <<key, 1>>)

\* del d[key] for every key of a set
DictDelAll(d, keys) == SelectSeq(d, LAMBDA e : e[1] \notin keys)

\* the entries <<k1, k2, x>> of s before which e is placed by a stable sort
RECURSIVE InsertStable(_, _)
InsertStable(sorted, e) ==
    IF sorted = <<>> THEN <<e>>
    ELSE LET h == Head(sorted)
         IN  IF e[1] < h[1] \/ (e[1] = h[1] /\ e[2] < h[2])
             THEN <<e>> \o sorted
             ELSE <<h>> \o InsertStable(Tail(sorted), e)

\* sorted(s, key=lambda e: (e[0], e[1])) for entries <<k1, k2, x>>: stable
RECURSIVE SortedByKey(_)
SortedByKey(s) ==
    IF s = <<>> THEN <<>>
    ELSE InsertStable(SortedByKey(SubSeq(s, 1, Len(s) - 1)), s[Len(s)])

\* the permutations of a finite set, as sequences
RECURSIVE Perms(_)
Perms(S) ==
    IF S = {} THEN {<<>>}
    ELSE UNION {{<<x>> \o p : p \in Perms(S \ {x})} : x \in S}

-----------------------------------------------------------------------------
(* heapq, on a list of (count, insertion order, item) tuples. *)

RECURSIVE SiftDownLoop(_, _, _, _)
SiftDownLoop(h, newitem, startpos, pos) ==
    IF pos > startpos /\ TupleLT(newitem, h[pos \div 2])
    THEN SiftDownLoop([h EXCEPT ![pos] = h[pos \div 2]], newitem, startpos, pos \div 2)
    ELSE [h EXCEPT ![pos] = newitem]

\* heapq._siftdown: move heap[pos] toward the root while its parent is larger
_siftdown(h, startpos, pos) == SiftDownLoop(h, h[pos], startpos, pos)

RECURSIVE SiftUpLoop(_, _, _, _)
SiftUpLoop(h, newitem, startpos, pos) ==
    LET childpos == 2 * pos
        rightpos == childpos + 1
    IN  IF childpos <= Len(h)
        THEN LET c == IF rightpos <= Len(h) /\ ~TupleLT(h[childpos], h[rightpos])
                      THEN rightpos ELSE childpos
             IN  SiftUpLoop([h EXCEPT ![pos] = h[c]], newitem, startpos, c)
        ELSE _siftdown([h EXCEPT ![pos] = newitem], startpos, pos)

\* heapq._siftup: bubble the smaller child up to a leaf, then sift down
_siftup(h, pos) == SiftUpLoop(h, h[pos], pos, pos)

\* heapq.heappush(heap, entry)
heappush(h, entry) == _siftdown(Append(h, entry), 1, Len(h) + 1)

\* heapq.heappushpop(heap, entry): the heap after the call
heappushpop(h, entry) ==
    IF Len(h) > 0 /\ TupleLT(h[1], entry)
    THEN _siftup([h EXCEPT ![1] = entry], 1)
    ELSE h

-----------------------------------------------------------------------------
(* class TopKTracker *)

\* TopKTracker.__init__
NewTracker(k) ==
    [k |-> k, counts |-> <<>>, heap |-> <<>>, insertion_counter |-> 0, total_adds |-> 0]

\* {item for _, _, item in self.heap}
HeapItems(t) == {t.heap[i][3] : i \in 1..Len(t.heap)}

RECURSIVE PushAll(_, _, _)
PushAll(new_heap, order, counts) ==
    IF order = <<>> THEN new_heap
    ELSE PushAll(heappush(new_heap, <<DictGet(counts, Head(order)), 0, Head(order)>>),
                 Tail(order), counts)

\* _update_heap without the rebuild: the entries keep the counts they were
\* pushed with (sensitivity variant for C5)
_update_heap_Stale(t) == {t.heap}

\* TopKTracker._update_heap: the heaps it can leave.  The loop runs over a set of
\* str, whose iteration order follows the per-process string hash, so every
\* order of the members is possible.
_update_heap(t) == {PushAll(<<>>, order, t.counts) : order \in Perms(HeapItems(t))}

\* add with the capacity test off by one, len(self.heap) + 1 < self.k
\* (sensitivity variant for C3)
add_OffByOneCapacity(t, item) ==
    LET counts1 == DictIncr(t.counts, item)
        current_count == DictGet(counts1, item)
        ins == t.insertion_counter + 1
        t1 == [t EXCEPT !.total_adds = @ + 1,
                        !.insertion_counter = ins,
                        !.counts = counts1]
    IN  IF item \in HeapItems(t)
        THEN {[t1 EXCEPT !.heap = h] : h \in _update_heap(t1)}
        ELSE IF Len(t.heap) + 1 < t.k
        THEN {[t1 EXCEPT !.heap = heappush(t.heap, <<current_count, ins, item>>)]}
        ELSE IF Len(t.heap) > 0 /\ current_count > t.heap[1][1]
        THEN {[t1 EXCEPT !.heap = heappushpop(t.heap, <<current_count, ins, item>>)]}
        ELSE {t1}

\* add that also deletes the count of the member it evicts, as a space-saving
\* counter does (sensitivity variant for C7)
add_EvictionDropsCount(t, item) ==
    LET counts1 == DictIncr(t.counts, item)
        current_count == DictGet(counts1, item)
        ins == t.insertion_counter + 1
        t1 == [t EXCEPT !.total_adds = @ + 1,
                        !.insertion_counter = ins,
                        !.counts = counts1]
    IN  IF item \in HeapItems(t)
        THEN {[t1 EXCEPT !.heap = h] : h \in _update_heap(t1)}
        ELSE IF Len(t.heap) < t.k
        THEN {[t1 EXCEPT !.heap = heappush(t.heap, <<current_count, ins, item>>)]}
        ELSE IF current_count > t.heap[1][1]
        THEN {[t1 EXCEPT !.heap = heappushpop(t.heap, <<current_count, ins, item>>),
                         !.counts = DictDelAll(counts1, {t.heap[1][3]})]}
        ELSE {t1}

\* add that also evicts when the new count ties the minimum, >= for >
\* (sensitivity variant for C23)
add_EvictsOnTie(t, item) ==
    LET counts1 == DictIncr(t.counts, item)
        current_count == DictGet(counts1, item)
        ins == t.insertion_counter + 1
        t1 == [t EXCEPT !.total_adds = @ + 1,
                        !.insertion_counter = ins,
                        !.counts = counts1]
    IN  IF item \in HeapItems(t)
        THEN {[t1 EXCEPT !.heap = h] : h \in _update_heap(t1)}
        ELSE IF Len(t.heap) < t.k
        THEN {[t1 EXCEPT !.heap = heappush(t.heap, <<current_count, ins, item>>)]}
        ELSE IF current_count >= t.heap[1][1]
        THEN {[t1 EXCEPT !.heap = heappushpop(t.heap, <<current_count, ins, item>>)]}
        ELSE {t1}

\* add that never replaces a member once the candidate set is full
\* (sensitivity variant for C24)
add_NeverEvicts(t, item) ==
    LET counts1 == DictIncr(t.counts, item)
        current_count == DictGet(counts1, item)
        ins == t.insertion_counter + 1
        t1 == [t EXCEPT !.total_adds = @ + 1,
                        !.insertion_counter = ins,
                        !.counts = counts1]
    IN  IF item \in HeapItems(t)
        THEN {[t1 EXCEPT !.heap = h] : h \in _update_heap(t1)}
        ELSE IF Len(t.heap) < t.k
        THEN {[t1 EXCEPT !.heap = heappush(t.heap, <<current_count, ins, item>>)]}
        ELSE {t1}

\* add that pushes every item that is not a member, without the capacity test
\* (sensitivity variant for C27)
add_AlwaysPushes(t, item) ==
    LET counts1 == DictIncr(t.counts, item)
        current_count == DictGet(counts1, item)
        ins == t.insertion_counter + 1
        t1 == [t EXCEPT !.total_adds = @ + 1,
                        !.insertion_counter = ins,
                        !.counts = counts1]
    IN  IF item \in HeapItems(t)
        THEN {[t1 EXCEPT !.heap = h] : h \in _update_heap(t1)}
        ELSE {[t1 EXCEPT !.heap = heappush(t.heap, <<current_count, ins, item>>)]}

\* add that leaves the heap as it is when the item is a member
\* (sensitivity variant for C28)
add_HitLeavesHeap(t, item) ==
    LET counts1 == DictIncr(t.counts, item)
        current_count == DictGet(counts1, item)
        ins == t.insertion_counter + 1
        t1 == [t EXCEPT !.total_adds = @ + 1,
                        !.insertion_counter = ins,
                        !.counts = counts1]
    IN  IF item \in HeapItems(t)
        THEN {t1}
        ELSE IF Len(t.heap) < t.k
        THEN {[t1 EXCEPT !.heap = heappush(t.heap, <<current_count, ins, item>>)]}
        ELSE IF current_count > t.heap[1][1]
        THEN {[t1 EXCEPT !.heap = heappushpop(t.heap, <<current_count, ins, item>>)]}
        ELSE {t1}

\* TopKTracker.add: the trackers it can leave
add(t, item) ==
    LET counts1 == DictIncr(t.counts, item)
        current_count == DictGet(counts1, item)
        ins == t.insertion_counter + 1
        t1 == [t EXCEPT !.total_adds = @ + 1,
                        !.insertion_counter = ins,
                        !.counts = counts1]
        item_in_heap == item \in HeapItems(t)
    IN  IF item_in_heap
        THEN {[t1 EXCEPT !.heap = h] : h \in _update_heap(t1)}
        ELSE IF Len(t.heap) < t.k
        THEN {[t1 EXCEPT !.heap = heappush(t.heap, <<current_count, ins, item>>)]}
        ELSE IF current_count > t.heap[1][1]
        THEN {[t1 EXCEPT !.heap = heappushpop(t.heap, <<current_count, ins, item>>)]}
        ELSE {t1}

\* prune that ranks every key of self.counts, the candidates included
\* (sensitivity variant for C4)
PruneRemoved_AllKeys(t, percent) ==
    IF Len(t.counts) <= t.k THEN {}
    ELSE LET items == DictKeys(t.counts)
             to_remove == Max((Len(items) * percent) \div 100, 1)
             with_counts ==
                 SortedByKey([i \in 1..Len(items) |-> <<DictGet(t.counts, items[i]), 0, items[i]>>])
         IN  {with_counts[i][3] : i \in 1..Min(to_remove, Len(with_counts))}

\* prune that rounds the share of non-candidates up instead of down
\* (sensitivity variant for C26)
PruneRemoved_CeilingShare(t, percent) ==
    IF Len(t.counts) <= t.k THEN {}
    ELSE LET non_heap_items == SelectSeq(DictKeys(t.counts), LAMBDA i : i \notin HeapItems(t))
         IN  IF non_heap_items = <<>> THEN {}
             ELSE LET to_remove == Max((Len(non_heap_items) * percent + 99) \div 100, 1)
                      non_heap_with_counts ==
                          SortedByKey([i \in 1..Len(non_heap_items) |->
                              <<DictGet(t.counts, non_heap_items[i]), 0, non_heap_items[i]>>])
                  IN  {non_heap_with_counts[i][3] :
                          i \in 1..Min(to_remove, Len(non_heap_with_counts))}

\* the keys TopKTracker.prune deletes from self.counts
PruneRemoved(t, percent) ==
    IF Len(t.counts) <= t.k THEN {}
    ELSE LET non_heap_items == SelectSeq(DictKeys(t.counts), LAMBDA i : i \notin HeapItems(t))
         IN  IF non_heap_items = <<>> THEN {}
             ELSE LET to_remove == Max((Len(non_heap_items) * percent) \div 100, 1)
                      non_heap_with_counts ==
                          SortedByKey([i \in 1..Len(non_heap_items) |->
                              <<DictGet(t.counts, non_heap_items[i]), 0, non_heap_items[i]>>])
                  IN  {non_heap_with_counts[i][3] :
                          i \in 1..Min(to_remove, Len(non_heap_with_counts))}

\* prune that halves the counts it selects instead of deleting them
\* (sensitivity variant for C29)
prune_HalvesCounts(t, percent) ==
    [t EXCEPT !.counts =
        SelectSeq([i \in 1..Len(@) |->
                      IF @[i][1] \in PruneRemoved(t, percent)
                      THEN <<@[i][1], @[i][2] \div 2>> ELSE @[i]],
                  LAMBDA e : e[2] > 0)]

\* TopKTracker.prune
prune(t, percent) == [t EXCEPT !.counts = DictDelAll(@, PruneRemoved(t, percent))]

\* TopKTracker.get_top_k(n) for an integer n >= 0
get_top_k(t, n) ==
    LET sorted_items ==
            SortedByKey([i \in 1..Len(t.heap) |-> <<0 - t.heap[i][1], t.heap[i][2], t.heap[i][3]>>])
    IN  [i \in 1..Min(n, Len(sorted_items)) |->
            <<sorted_items[i][3], DictGet(t.counts, sorted_items[i][3])>>]

\* TopKTracker.get_top_k() with n=None
get_top_k_all(t) == get_top_k(t, Len(t.heap))

-----------------------------------------------------------------------------
(* str methods used by the validators. *)

Digits == {"0", "1", "2", "3", "4", "5", "6", "7", "8", "9"}

\* the characters of s, as a sequence of one-character strings
Chars(s) == [i \in 1..Len(s) |-> SubSeq(s, i, i)]

\* str.isdigit() on the ASCII strings of the model
IsDigit(s) == Len(s) > 0 /\ \A i \in 1..Len(s) : SubSeq(s, i, i) \in Digits

\* int(s) for a string of ASCII digits
RECURSIVE IntOf(_)
IntOf(s) ==
    IF Len(s) = 0 THEN 0
    ELSE 10 * IntOf(SubSeq(s, 1, Len(s) - 1)) + (CodePoint(SubSeq(s, Len(s), Len(s))) - 48)

\* str.startswith(prefix)
StartsWith(s, prefix) == Len(s) >= Len(prefix) /\ SubSeq(s, 1, Len(prefix)) = prefix

\* the pieces of s between occurrences of the one-character separator sep,
\* empty pieces included: str.split(sep)
RECURSIVE SplitOn(_, _, _, _)
SplitOn(s, sep, piece, acc) ==
    IF Len(s) = 0 THEN Append(acc, piece)
    ELSE IF SubSeq(s, 1, 1) = sep
         THEN SplitOn(Tail(s), sep, "", Append(acc, piece))
         ELSE SplitOn(Tail(s), sep, piece \o SubSeq(s, 1, 1), acc)

\* str.split(): split on runs of whitespace, no empty pieces
SplitWhitespace(s) == SelectSeq(SplitOn(s, " ", "", <<>>), LAMBDA piece : piece # "")

-----------------------------------------------------------------------------
(* The field validators.  A validator returns [exc |-> "", val |-> v] or, when *)
(* it raises, [exc |-> <exception type>, val |-> <<>>].                      *)

Return(v) == [exc |-> "", val |-> v]

Raise(e) == [exc |-> e, val |-> <<>>]

MIN_STATUS_CODE == 100

MAX_STATUS_CODE == 599

STATUS_CODE_LENGTH == 3

TOP_N_RESULTS == 10

VALID_HTTP_METHODS ==
    {"GET", "POST", "PUT", "DELETE", "PATCH", "HEAD", "OPTIONS", "CONNECT", "TRACE"}

\* %b of strptime and %m of strftime
MonthNumber(b) ==
    CASE b = "Jan" -> "01" [] b = "Feb" -> "02" [] b = "Mar" -> "03" [] b = "Apr" -> "04"
      [] b = "May" -> "05" [] b = "Jun" -> "06" [] b = "Jul" -> "07" [] b = "Aug" -> "08"
      [] b = "Sep" -> "09" [] b = "Oct" -> "10" [] b = "Nov" -> "11" [] b = "Dec" -> "12"
      [] OTHER -> ""

DaysInMonth(m, year) ==
    IF m = "02" THEN (IF year % 4 = 0 /\ (year % 100 # 0 \/ year % 400 = 0) THEN 29 ELSE 28)
    ELSE IF m \in {"04", "06", "09", "11"} THEN 30 ELSE 31

\* datetime.strptime(s, "%d/%b/%Y:%H:%M:%S %z") succeeds, for timestamps written
\* with two-digit fields as access logs write them: dd/Mon/yyyy:HH:MM:SS +zzzz
StrptimeOk(s) ==
    /\ Len(s) = 26
    /\ SubSeq(s, 3, 3) = "/" /\ SubSeq(s, 7, 7) = "/" /\ SubSeq(s, 12, 12) = ":"
    /\ SubSeq(s, 15, 15) = ":" /\ SubSeq(s, 18, 18) = ":" /\ SubSeq(s, 21, 21) = " "
    /\ SubSeq(s, 22, 22) \in {"+", "-"}
    /\ IsDigit(SubSeq(s, 1, 2)) /\ IsDigit(SubSeq(s, 8, 11)) /\ IsDigit(SubSeq(s, 13, 14))
    /\ IsDigit(SubSeq(s, 16, 17)) /\ IsDigit(SubSeq(s, 19, 20)) /\ IsDigit(SubSeq(s, 23, 26))
    /\ MonthNumber(SubSeq(s, 4, 6)) # ""
    /\ IntOf(SubSeq(s, 8, 11)) >= 1
    /\ IntOf(SubSeq(s, 1, 2)) >= 1
    /\ IntOf(SubSeq(s, 1, 2)) <= DaysInMonth(MonthNumber(SubSeq(s, 4, 6)), IntOf(SubSeq(s, 8, 11)))
    /\ IntOf(SubSeq(s, 13, 14)) <= 23
    /\ IntOf(SubSeq(s, 16, 17)) <= 59
    /\ IntOf(SubSeq(s, 19, 20)) <= 59
    /\ IntOf(SubSeq(s, 25, 26)) <= 59

\* parse_minute: strptime, then strftime("%Y-%m-%d %H:%M"), which drops the
\* seconds and the zone offset
parse_minute(timestamp_str) ==
    IF StrptimeOk(timestamp_str)
    THEN Return(SubSeq(timestamp_str, 8, 11) \o "-" \o MonthNumber(SubSeq(timestamp_str, 4, 6))
                \o "-" \o SubSeq(timestamp_str, 1, 2) \o " " \o SubSeq(timestamp_str, 13, 17))
    ELSE Raise("ValueError")

parse_timestamp(data) == parse_minute(data.timestamp)

\* one dotted-quad octet as ipaddress.IPv4Address accepts it
OctetOk(o) ==
    /\ IsDigit(o)
    /\ Len(o) <= 3
    /\ (Len(o) > 1 => SubSeq(o, 1, 1) # "0")
    /\ IntOf(o) <= 255

\* ipaddress.ip_address(ip) succeeds.  The model's addresses are dotted quads;
\* "::1" stands for the IPv6 addresses.
IpAddressOk(ip) ==
    \/ ip = "::1"
    \/ LET octets == SplitOn(ip, ".", "", <<>>)
       IN  Len(octets) = 4 /\ \A i \in 1..4 : OctetOk(octets[i])

parse_ip(data) ==
    IF IpAddressOk(data.ip) THEN Return(data.ip) ELSE Raise("ValueError")

\* parse_status without the upper limit of the range check
\* (sensitivity variant for C10)
parse_status_NoUpperBound(data) ==
    LET status == data.status
    IN  IF ~IsDigit(status) THEN Raise("ValueError")
        ELSE IF ~(MIN_STATUS_CODE <= IntOf(status))
        THEN Raise("ValueError")
        ELSE Return(<<status,
                      IF Len(status) = STATUS_CODE_LENGTH
                      THEN SubSeq(status, 1, 1) \o "xx" ELSE "Unknown">>)

parse_status(data) ==
    LET status == data.status
    IN  IF ~IsDigit(status) THEN Raise("ValueError")
        ELSE IF ~(MIN_STATUS_CODE <= IntOf(status) /\ IntOf(status) <= MAX_STATUS_CODE)
        THEN Raise("ValueError")
        ELSE Return(<<status,
                      IF Len(status) = STATUS_CODE_LENGTH
                      THEN SubSeq(status, 1, 1) \o "xx" ELSE "Unknown">>)

parse_request(data) ==
    LET request_raw == data.request
        parts == SplitWhitespace(request_raw)
    IN  IF request_raw = "" THEN Raise("ValueError")
        ELSE IF Len(parts) # 3 THEN Raise("ValueError")
        ELSE IF parts[1] \notin VALID_HTTP_METHODS THEN Raise("ValueError")
        ELSE IF ~StartsWith(parts[2], "/") THEN Raise("ValueError")
        ELSE IF ~StartsWith(parts[3], "HTTP/") THEN Raise("ValueError")
        ELSE Return(<<parts[1], parts[2]>>)

\* parse_size: <<n>> for an integer, <<>> for None
parse_size(data) ==
    IF data.size # "" /\ IsDigit(data.size) THEN <<IntOf(data.size)>> ELSE <<>>

-----------------------------------------------------------------------------
(* Input lines.  A line of the file is [bom, eol, text, ip, timestamp,       *)
(* request, status, size]: an access-log line                               *)
(*     ip - - [timestamp] "request" status size                             *)
(* is given by its fields and has text = ""; any other line is given by its *)
(* text and has empty fields.  bom says that the line starts with U+FEFF,   *)
(* eol is its line terminator.                                              *)

LogLine(ip, timestamp, request, status, size) ==
    [bom |-> FALSE, eol |-> "\n", text |-> "", ip |-> ip, timestamp |-> timestamp,
     request |-> request, status |-> status, size |-> size]

TextLine(text) ==
    [bom |-> FALSE, eol |-> "\n", text |-> text, ip |-> "", timestamp |-> "",
     request |-> "", status |-> "", size |-> ""]

\* the first field of the line as written: what line.startswith looks at
LineHead(line) == IF line.text # "" THEN line.text ELSE line.ip

\* if line and line[0] == BOM: line = line[1:]; line_original = line.rstrip("\r\n")
Strip(line) == [line EXCEPT !.bom = FALSE, !.eol = ""]

\* not line_original
IsEmptyLine(line) ==
    /\ ~line.bom
    /\ line.text = "" /\ line.ip = "" /\ line.timestamp = ""
    /\ line.request = "" /\ line.status = "" /\ line.size = ""

\* s holds none of the characters of the set
NoneOf(s, chars) == \A i \in 1..Len(s) : SubSeq(s, i, i) \notin chars

\* log_pattern.match(line_original) is not None: every group matches its class
log_pattern_match(line) ==
    /\ ~line.bom
    /\ line.text = ""
    /\ Len(line.ip) >= 1 /\ NoneOf(line.ip, {" ", "\t"})
    /\ Len(line.timestamp) >= 1 /\ NoneOf(line.timestamp, {"]"})
    /\ NoneOf(line.request, {"\""})
    /\ Len(line.status) = 3 /\ IsDigit(line.status)
    /\ (line.size = "-" \/ IsDigit(line.size))

-----------------------------------------------------------------------------
(* Bounds of the pipeline model.  The capacities, the pruning cadence and   *)
(* the failure cap are the program's (100000, 50000, 10000, 100000, 1000)   *)
(* scaled down so that a file of MaxLines lines reaches them.               *)

\* the number of lines of the file
MaxLines == 3

\* MAX_UNIQUE_IPS, MAX_UNIQUE_URLS, MAX_UNIQUE_MINUTES
MAX_UNIQUE_IPS == 2

MAX_UNIQUE_URLS == 2

MAX_UNIQUE_MINUTES == 2

\* PRUNE_EVERY_N_LINES, and the period of the progress message
PRUNE_EVERY_N_LINES == 3

PROGRESS_EVERY_N_LINES == 3

\* the number of distinct lines record_failure stores
FAILED_ATTEMPTS_CAP == 2

SMALL_FILE_THRESHOLD == 100

MEDIUM_FILE_THRESHOLD == 1000

\* 1024 * 1024, the bytes of one MB
BYTES_PER_MB == 1048576

\* the files a run is given
Files ==
    {[exists |-> TRUE, readable |-> TRUE, size |-> mb * BYTES_PER_MB] : mb \in {50, 500, 2000}}
    \cup {[exists |-> FALSE, readable |-> FALSE, size |-> 0],
          [exists |-> TRUE, readable |-> FALSE, size |-> 50 * BYTES_PER_MB]}

IP1 == "192.168.1.5"

IP2 == "192.168.1.6"

IPBad == "192.168.1.256"

T1 == "10/Oct/2023:12:00:00 +0300"

T2 == "10/Oct/2023:12:01:30 +0300"

TBad == "32/Oct/2023:12:00:00 +0300"

R1 == "GET /index.html HTTP/1.1"

R2 == "POST /login HTTP/1.1"

RBad == "GET /index.html"

\* lines whose fields all validate: they differ in IP, minute, path, status
\* class and size; the last one has a status of the 1xx class
ValidLines ==
    {LogLine(IP1, T1, R1, "200", "1234"),
     LogLine(IP2, T1, R1, "404", "1234"),
     LogLine(IP1, T2, R1, "301", "80"),
     LogLine(IP1, T1, R2, "503", "-"),
     LogLine(IP2, T2, R2, "200", "80"),
     LogLine(IP1, T1, R1, "100", "1234")}

\* the fields of the line that do not validate
InvalidFields(line) ==
    {f \in {"timestamp", "ip", "status", "request"} :
        \/ f = "timestamp" /\ line.timestamp = TBad
        \/ f = "ip" /\ line.ip = IPBad
        \/ f = "status" /\ line.status = "999"
        \/ f = "request" /\ line.request = RBad}

\* lines in which one, two or all four of timestamp, IP, status and request
\* are invalid
FieldLines ==
    {line \in {LogLine(ip, ts, rq, st, "1234") :
                  ip \in {IP1, IPBad}, ts \in {T1, TBad}, rq \in {R1, RBad},
                  st \in {"200", "999"}} :
        Cardinality(InvalidFields(line)) \in {1, 2, 4}}

\* blank lines, comments, text that is no access-log line, a status of two
\* digits, a leading BOM and a CR LF terminator
OtherLines ==
    {TextLine(""), TextLine("# c"), TextLine("oops"),
     [TextLine("# c") EXCEPT !.bom = TRUE],
     [TextLine("") EXCEPT !.eol = "\r\n"],
     [LogLine(IP2, T2, R2, "200", "80") EXCEPT !.bom = TRUE, !.eol = "\r\n"],
     LogLine(IP1, T1, R1, "20", "1234")}

Lines == ValidLines \cup FieldLines \cup OtherLines

-----------------------------------------------------------------------------
(* analyze_log_optimized and its helpers. *)

\* record_failure with the cap compared by <=
\* (sensitivity variant for C14)
record_failure_CapInclusive(fa, line, reason) ==
    IF Len(fa) <= FAILED_ATTEMPTS_CAP
    THEN IF line \notin DictKeySet(fa)
         THEN Append(fa, <<line, [count |-> 1, reason |-> reason]>>)
         ELSE [i \in 1..Len(fa) |->
                  IF fa[i][1] = line
                  THEN <<line, [fa[i][2] EXCEPT !.count = @ + 1]>>
                  ELSE fa[i]]
    ELSE fa

\* record_failure(failed_attempts, line, reason): the dict after the call
record_failure(fa, line, reason) ==
    IF Len(fa) < FAILED_ATTEMPTS_CAP
    THEN IF line \notin DictKeySet(fa)
         THEN Append(fa, <<line, [count |-> 1, reason |-> reason]>>)
         ELSE [i \in 1..Len(fa) |->
                  IF fa[i][1] = line
                  THEN <<line, [fa[i][2] EXCEPT !.count = @ + 1]>>
                  ELSE fa[i]]
    ELSE fa

\* get_memory_mode_for_file with the thresholds compared by <=
\* (sensitivity variant for C12)
get_memory_mode_for_file_InclusiveThresholds(f) ==
    LET file_size_bytes == IF f.exists THEN f.size ELSE 0
    IN  IF file_size_bytes <= SMALL_FILE_THRESHOLD * BYTES_PER_MB
        THEN [mode |-> "FULL",
              limits |-> [max_ips |-> 0, max_urls |-> 0, max_minutes |-> 0]]
        ELSE IF file_size_bytes <= MEDIUM_FILE_THRESHOLD * BYTES_PER_MB
        THEN [mode |-> "BALANCED",
              limits |-> [max_ips |-> MAX_UNIQUE_IPS, max_urls |-> MAX_UNIQUE_URLS,
                          max_minutes |-> MAX_UNIQUE_MINUTES]]
        ELSE [mode |-> "AGGRESSIVE",
              limits |-> [max_ips |-> MAX_UNIQUE_IPS \div 2, max_urls |-> MAX_UNIQUE_URLS \div 2,
                          max_minutes |-> MAX_UNIQUE_MINUTES \div 2]]

\* get_memory_mode_for_file(filepath); os.path.getsize raises for a missing file
get_memory_mode_for_file(f) ==
    LET file_size_bytes == IF f.exists THEN f.size ELSE 0
    IN  IF file_size_bytes < SMALL_FILE_THRESHOLD * BYTES_PER_MB
        THEN [mode |-> "FULL",
              limits |-> [max_ips |-> 0, max_urls |-> 0, max_minutes |-> 0]]
        ELSE IF file_size_bytes < MEDIUM_FILE_THRESHOLD * BYTES_PER_MB
        THEN [mode |-> "BALANCED",
              limits |-> [max_ips |-> MAX_UNIQUE_IPS, max_urls |-> MAX_UNIQUE_URLS,
                          max_minutes |-> MAX_UNIQUE_MINUTES]]
        ELSE [mode |-> "AGGRESSIVE",
              limits |-> [max_ips |-> MAX_UNIQUE_IPS \div 2, max_urls |-> MAX_UNIQUE_URLS \div 2,
                          max_minutes |-> MAX_UNIQUE_MINUTES \div 2]]

\* Counter.most_common(n): by descending count, ties in insertion order
most_common(counter, n) ==
    LET sorted_items ==
            SortedByKey([i \in 1..Len(counter) |-> <<0 - counter[i][2], 0, counter[i]>>])
    IN  [i \in 1..Min(n, Len(sorted_items)) |-> sorted_items[i][3]]

\* the local variables of analyze_log_optimized, as one record
Locals ==
    [memory_mode |-> memory_mode, limits |-> limits, use_top_k |-> use_top_k,
     total_requests |-> total_requests, total_lines_processed |-> total_lines_processed,
     total_size |-> total_size, size_count |-> size_count,
     min_size |-> min_size, max_size |-> max_size,
     failed_attempts |-> failed_attempts,
     ips_tracker |-> ips_tracker, urls_tracker |-> urls_tracker,
     minutes_tracker |-> minutes_tracker,
     ips_counter |-> ips_counter, urls_counter |-> urls_counter,
     minutes_counter |-> minutes_counter,
     statuses |-> statuses, status_groups |-> status_groups, methods |-> methods]

\* the local variables take the values of the record
SetLocals(s) ==
    /\ memory_mode' = s.memory_mode /\ limits' = s.limits /\ use_top_k' = s.use_top_k
    /\ total_requests' = s.total_requests
    /\ total_lines_processed' = s.total_lines_processed
    /\ total_size' = s.total_size /\ size_count' = s.size_count
    /\ min_size' = s.min_size /\ max_size' = s.max_size
    /\ failed_attempts' = s.failed_attempts
    /\ ips_tracker' = s.ips_tracker /\ urls_tracker' = s.urls_tracker
    /\ minutes_tracker' = s.minutes_tracker
    /\ ips_counter' = s.ips_counter /\ urls_counter' = s.urls_counter
    /\ minutes_counter' = s.minutes_counter
    /\ statuses' = s.statuses /\ status_groups' = s.status_groups /\ methods' = s.methods

\* a tracker name that is not bound in the current mode: no tracker has k = 0
Unbound == [k |-> 0, counts |-> <<>>, heap |-> <<>>, insertion_counter |-> 0, total_adds |-> 0]

\* a counter name that is not bound in the current mode: no counter holds a
\* count of 0
UnboundCounter == << <<"unbound", 0>> >>

\* lines 219-243: mode selection and the initial values of the locals
InitialLocals(f) ==
    LET m == get_memory_mode_for_file(f)
        top_k == m.limits.max_ips > 0
    IN  [memory_mode |-> m.mode, limits |-> m.limits, use_top_k |-> top_k,
         total_requests |-> 0, total_lines_processed |-> 0,
         total_size |-> 0, size_count |-> 0, min_size |-> <<>>, max_size |-> <<>>,
         failed_attempts |-> <<>>,
         ips_tracker |-> IF top_k THEN NewTracker(m.limits.max_ips) ELSE Unbound,
         urls_tracker |-> IF top_k THEN NewTracker(m.limits.max_urls) ELSE Unbound,
         minutes_tracker |-> IF top_k THEN NewTracker(m.limits.max_minutes) ELSE Unbound,
         ips_counter |-> IF top_k THEN UnboundCounter ELSE <<>>,
         urls_counter |-> IF top_k THEN UnboundCounter ELSE <<>>,
         minutes_counter |-> IF top_k THEN UnboundCounter ELSE <<>>,
         statuses |-> <<>>,
         status_groups |-> << <<"2xx", 0>>, <<"3xx", 0>>, <<"4xx", 0>>, <<"5xx", 0>>,
                              <<"Unknown", 0>> >>,
         methods |-> <<>>]

\* lines 252-260: the progress message and, in bounded modes, the pruning
Cadence(s, line_num) ==
    IF line_num % PROGRESS_EVERY_N_LINES = 0
       /\ s.use_top_k /\ line_num % PRUNE_EVERY_N_LINES = 0
    THEN LET prune_percent == IF s.memory_mode = "BALANCED" THEN 5 ELSE 20
         IN  [s EXCEPT !.ips_tracker = prune(@, prune_percent),
                       !.urls_tracker = prune(@, prune_percent)]
    ELSE s

\* lines 326-336: the size statistics of an accepted line
CountSize(s, data) ==
    LET size == parse_size(data)
    IN  IF size = <<>> THEN s
        ELSE [s EXCEPT !.total_size = @ + size[1],
                       !.size_count = @ + 1,
                       !.min_size = IF @ = <<>> \/ size[1] < @[1] THEN size ELSE @,
                       !.max_size = IF @ = <<>> \/ size[1] > @[1] THEN size ELSE @]

\* the counting of FULL mode with the URL counter keyed by the IP
\* (sensitivity variant for C8)
CountRequest_UrlKeyedByIp(s, temp_ip, temp_path, temp_minute) ==
    IF s.use_top_k
    THEN {[s EXCEPT !.total_requests = @ + 1,
                    !.ips_tracker = ti, !.urls_tracker = tu, !.minutes_tracker = tm] :
             ti \in add(s.ips_tracker, temp_ip),
             tu \in add(s.urls_tracker, temp_path),
             tm \in add(s.minutes_tracker, temp_minute)}
    ELSE {[s EXCEPT !.total_requests = @ + 1,
                    !.ips_counter = DictIncr(@, temp_ip),
                    !.urls_counter = DictIncr(@, temp_ip),
                    !.minutes_counter = DictIncr(@, temp_minute)]}

\* the orders in which the entries of a dict can be arranged
\* (used by the sensitivity variant for C19)
Shuffled(d) == Perms({d[i] : i \in 1..Len(d)})

\* sensitivity variant for C19: the counters of FULL mode keep their keys in
\* no particular order
CountRequest_FullUnordered(s, temp_ip, temp_path, temp_minute) ==
    IF s.use_top_k
    THEN {[s EXCEPT !.total_requests = @ + 1,
                    !.ips_tracker = ti, !.urls_tracker = tu, !.minutes_tracker = tm] :
             ti \in add(s.ips_tracker, temp_ip),
             tu \in add(s.urls_tracker, temp_path),
             tm \in add(s.minutes_tracker, temp_minute)}
    ELSE {[s EXCEPT !.total_requests = @ + 1,
                    !.ips_counter = ci, !.urls_counter = cu, !.minutes_counter = cm] :
             ci \in Shuffled(DictIncr(s.ips_counter, temp_ip)),
             cu \in Shuffled(DictIncr(s.urls_counter, temp_path)),
             cm \in Shuffled(DictIncr(s.minutes_counter, temp_minute))}

\* sensitivity variant for C22: the minute of a record is added to its tracker
\* only when the minute is new to it
CountRequest_MinuteAddedIfNew(s, temp_ip, temp_path, temp_minute) ==
    IF s.use_top_k
    THEN {[s EXCEPT !.total_requests = @ + 1,
                    !.ips_tracker = ti, !.urls_tracker = tu, !.minutes_tracker = tm] :
             ti \in add(s.ips_tracker, temp_ip),
             tu \in add(s.urls_tracker, temp_path),
             tm \in IF temp_minute \in DictKeySet(s.minutes_tracker.counts)
                    THEN {s.minutes_tracker}
                    ELSE add(s.minutes_tracker, temp_minute)}
    ELSE {[s EXCEPT !.total_requests = @ + 1,
                    !.ips_counter = DictIncr(@, temp_ip),
                    !.urls_counter = DictIncr(@, temp_path),
                    !.minutes_counter = DictIncr(@, temp_minute)]}

\* lines 311-320: total_requests and the three trackers or counters
CountRequest(s, temp_ip, temp_path, temp_minute) ==
    IF s.use_top_k
    THEN {[s EXCEPT !.total_requests = @ + 1,
                    !.ips_tracker = ti, !.urls_tracker = tu, !.minutes_tracker = tm] :
             ti \in add(s.ips_tracker, temp_ip),
             tu \in add(s.urls_tracker, temp_path),
             tm \in add(s.minutes_tracker, temp_minute)}
    ELSE {[s EXCEPT !.total_requests = @ + 1,
                    !.ips_counter = DictIncr(@, temp_ip),
                    !.urls_counter = DictIncr(@, temp_path),
                    !.minutes_counter = DictIncr(@, temp_minute)]}

\* lines 308-340: a line whose fields all validated.  status_groups is a plain
\* dict: an absent group raises KeyError, which the handler of line 338 records.
Accept(s, line_original, temp_minute, temp_ip, temp_status, temp_group, temp_method, temp_path) ==
    {IF temp_group \in DictKeySet(s1.status_groups)
     THEN CountSize([s1 EXCEPT !.statuses = DictIncr(@, temp_status),
                               !.status_groups = DictIncr(@, temp_group),
                               !.methods = DictIncr(@, temp_method)],
                    line_original)
     ELSE [s1 EXCEPT !.statuses = DictIncr(@, temp_status),
                     !.failed_attempts = record_failure(@, line_original, "unexpected_error")] :
        s1 \in CountRequest(s, temp_ip, temp_path, temp_minute)}

\* the validation with the IP checked before the timestamp
\* (sensitivity variant for C9)
Validate_IpFirst(data) ==
    IF parse_ip(data).exc \in {"ValueError", "KeyError"} THEN "ip_error"
    ELSE IF parse_timestamp(data).exc \in {"ValueError", "KeyError"} THEN "timestamp_error"
    ELSE IF parse_status(data).exc \in {"ValueError", "KeyError"} THEN "status_error"
    ELSE IF parse_request(data).exc \in {"ValueError", "KeyError"} THEN "request_error"
    ELSE ""

\* the failure reason of lines 281-306, "" when every field validates
Validate(data) ==
    IF parse_timestamp(data).exc \in {"ValueError", "KeyError"} THEN "timestamp_error"
    ELSE IF parse_ip(data).exc \in {"ValueError", "KeyError"} THEN "ip_error"
    ELSE IF parse_status(data).exc \in {"ValueError", "KeyError"} THEN "status_error"
    ELSE IF parse_request(data).exc \in {"ValueError", "KeyError"} THEN "request_error"
    ELSE ""

\* sensitivity variant for C20: only empty lines are skipped, a comment goes
\* on to the pattern
LoopBody_CommentsParsed(s, line) ==
    LET line_num == s.total_lines_processed + 1
        s1 == Cadence([s EXCEPT !.total_lines_processed = @ + 1], line_num)
        line_original == Strip(line)
        reason == Validate(line_original)
    IN  IF IsEmptyLine(line_original)
        THEN {s1}
        ELSE IF ~log_pattern_match(line_original)
        THEN {[s1 EXCEPT !.failed_attempts = record_failure(@, line_original, "regex_no_match")]}
        ELSE IF reason # ""
        THEN {[s1 EXCEPT !.failed_attempts = record_failure(@, line_original, reason)]}
        ELSE Accept(s1, line_original,
                    parse_timestamp(line_original).val, parse_ip(line_original).val,
                    parse_status(line_original).val[1], parse_status(line_original).val[2],
                    parse_request(line_original).val[1], parse_request(line_original).val[2])

\* lines 250-340: one iteration of the loop over the file, on the locals s;
\* the values of the locals it can end with
LoopBody(s, line) ==
    LET line_num == s.total_lines_processed + 1
        s1 == Cadence([s EXCEPT !.total_lines_processed = @ + 1], line_num)
        line_original == Strip(line)
        reason == Validate(line_original)
    IN  IF IsEmptyLine(line_original) \/ StartsWith(LineHead(line_original), "#")
        THEN {s1}
        ELSE IF ~log_pattern_match(line_original)
        THEN {[s1 EXCEPT !.failed_attempts = record_failure(@, line_original, "regex_no_match")]}
        ELSE IF reason # ""
        THEN {[s1 EXCEPT !.failed_attempts = record_failure(@, line_original, reason)]}
        ELSE Accept(s1, line_original,
                    parse_timestamp(line_original).val, parse_ip(line_original).val,
                    parse_status(line_original).val[1], parse_status(line_original).val[2],
                    parse_request(line_original).val[1], parse_request(line_original).val[2])

\* lines 353-372: the three top lists
TopLists(s) ==
    IF s.use_top_k
    THEN [top_ips |-> get_top_k(s.ips_tracker, TOP_N_RESULTS),
          top_urls |-> get_top_k(s.urls_tracker, TOP_N_RESULTS),
          top_minutes |-> get_top_k(s.minutes_tracker, TOP_N_RESULTS)]
    ELSE [top_ips |-> most_common(s.ips_counter, TOP_N_RESULTS),
          top_urls |-> most_common(s.urls_counter, TOP_N_RESULTS),
          top_minutes |-> most_common(s.minutes_counter, TOP_N_RESULTS)]

\* TopKTracker.get_stats, and the FULL-mode entry of tracker_stats
TrackerStats(s) ==
    LET stats(t) == [k |-> t.k, unique_items |-> Len(t.counts), heap_size |-> Len(t.heap),
                     total_adds |-> t.total_adds]
        full(c) == [unique_items |-> Len(c), mode |-> "FULL"]
    IN  IF s.use_top_k
        THEN [ips |-> stats(s.ips_tracker), urls |-> stats(s.urls_tracker),
              minutes |-> stats(s.minutes_tracker)]
        ELSE [ips |-> full(s.ips_counter), urls |-> full(s.urls_counter),
              minutes |-> full(s.minutes_counter)]

\* lines 374-435: the report.  An average is the pair <<total, count>>; None is
\* <<>>.  The elapsed time and the rates formatted from it and from the
\* status-group counts are left out.
Report(s) ==
    LET top == TopLists(s)
        sized == s.size_count > 0
    IN  [summary |-> [memory_mode |-> s.memory_mode,
                      total_lines |-> s.total_lines_processed,
                      total_requests |-> s.total_requests],
         health_metrics |-> [status_groups |-> s.status_groups],
         traffic_analysis |-> [top_ips |-> top.top_ips, top_urls |-> top.top_urls,
                               top_minutes |-> top.top_minutes,
                               status_distribution |-> s.statuses,
                               methods |-> s.methods],
         size_analysis |-> [min_bytes |-> IF sized THEN s.min_size ELSE <<>>,
                            max_bytes |-> IF sized THEN s.max_size ELSE <<>>,
                            avg_bytes |-> IF sized THEN <<s.total_size, s.size_count>> ELSE <<>>,
                            total_bytes |-> IF sized THEN <<s.total_size>> ELSE <<>>,
                            requests_with_size |-> s.size_count],
         memory_optimization |-> [mode |-> s.memory_mode, limits |-> s.limits,
                                  tracker_stats |-> TrackerStats(s),
                                  failed_attempts_count |-> Len(s.failed_attempts),
                                  sample_failures |->
                                      SubSeq(s.failed_attempts, 1, Min(5, Len(s.failed_attempts)))]]

-----------------------------------------------------------------------------
(* No run of the pipeline, and no stand-alone tracker. *)

NoRun ==
    /\ pc = "-"
    /\ file = [exists |-> FALSE, readable |-> FALSE, size |-> 0]
    /\ memory_mode = "-" /\ limits = <<>> /\ use_top_k = FALSE
    /\ total_requests = 0 /\ total_lines_processed = 0
    /\ total_size = 0 /\ size_count = 0 /\ min_size = <<>> /\ max_size = <<>>
    /\ failed_attempts = <<>>
    /\ ips_tracker = Unbound /\ urls_tracker = Unbound /\ minutes_tracker = Unbound
    /\ ips_counter = UnboundCounter /\ urls_counter = UnboundCounter
    /\ minutes_counter = UnboundCounter
    /\ statuses = <<>> /\ status_groups = <<>> /\ methods = <<>>
    /\ result = <<>>
    /\ accepted = EmptyBag

NoTracker ==
    /\ tracker = Unbound
    /\ true_count = <<>> /\ prune_hits = <<>> /\ lost = <<>> /\ max_lost = <<>>
    /\ entered = <<>>

-----------------------------------------------------------------------------
(* The stand-alone tracker: any interleaving of add and prune. *)

ZeroOn(S) == [i \in S |-> 0]

InitTracker ==
    /\ NoRun
    /\ tracker \in {NewTracker(k) : k \in 1..MaxK}
    /\ true_count = ZeroOn(Items)
    /\ prune_hits = ZeroOn(Items)
    /\ lost = ZeroOn(Items)
    /\ max_lost = ZeroOn(Items)
    /\ entered = ZeroOn(Items)

\* a call tracker.add(item)
Add(item) ==
    /\ tracker.total_adds < MaxAdds
    /\ tracker' \in add(tracker, item)
    /\ true_count' = [true_count EXCEPT ![item] = @ + 1]
    /\ entered' = IF item \notin HeapItems(tracker) /\ item \in HeapItems(tracker')
                  THEN [entered EXCEPT ![item] = tracker'.insertion_counter]
                  ELSE entered
    /\ UNCHANGED <<prune_hits, lost, max_lost>>
    /\ UNCHANGED pvars

\* a call tracker.prune(percent)
Prune(percent) ==
    LET removed == DictKeySet(tracker.counts) \ DictKeySet(tracker'.counts)
    IN  /\ tracker' = prune(tracker, percent)
        /\ prune_hits' = [i \in Items |-> prune_hits[i] + (IF i \in removed THEN 1 ELSE 0)]
        /\ lost' = [i \in Items |->
                       lost[i] + (IF i \in removed THEN DictGet(tracker.counts, i) ELSE 0)]
        /\ max_lost' = [i \in Items |->
                           IF i \in removed
                           THEN Max(max_lost[i], DictGet(tracker.counts, i))
                           ELSE max_lost[i]]
        /\ UNCHANGED <<true_count, entered>>
        /\ UNCHANGED pvars

NextTracker ==
    \/ \E item \in Items : Add(item)
    \/ \E percent \in PrunePercents : Prune(percent)

SpecTracker == InitTracker /\ [][NextTracker]_vars

-----------------------------------------------------------------------------
(* One run of analyze_log_optimized(filepath). *)

Init ==
    /\ NoTracker
    /\ pc = "INIT"
    /\ file \in Files
    /\ memory_mode = "-" /\ limits = <<>> /\ use_top_k = FALSE
    /\ total_requests = 0 /\ total_lines_processed = 0
    /\ total_size = 0 /\ size_count = 0 /\ min_size = <<>> /\ max_size = <<>>
    /\ failed_attempts = <<>>
    /\ ips_tracker = Unbound /\ urls_tracker = Unbound /\ minutes_tracker = Unbound
    /\ ips_counter = UnboundCounter /\ urls_counter = UnboundCounter
    /\ minutes_counter = UnboundCounter
    /\ statuses = <<>> /\ status_groups = <<>> /\ methods = <<>>
    /\ result = <<>>
    /\ accepted = EmptyBag

\* lines 219-248: the mode is selected, the trackers or counters are created
\* and the file is opened
Start ==
    /\ pc = "INIT"
    /\ SetLocals(InitialLocals(file))
    /\ IF file.exists /\ file.readable
       THEN pc' = "STREAMING" /\ result' = result
       ELSE /\ pc' = "ABORTED"
            /\ result' = [error |-> IF file.exists THEN "PermissionError"
                                                     ELSE "FileNotFoundError"]
    /\ UNCHANGED <<file, accepted, tvars>>

\* sensitivity variant for C17: a line that records a failure ends the run
ProcessLine_AbortsOnFailure(line) ==
    /\ pc = "STREAMING"
    /\ total_lines_processed < MaxLines
    /\ \E s \in LoopBody(Locals, line) :
           /\ SetLocals(s)
           /\ accepted' = IF s.total_requests = total_requests THEN accepted
                          ELSE accepted (+) SetToBag({<<parse_ip(Strip(line)).val,
                                                       parse_request(Strip(line)).val[2],
                                                       parse_timestamp(Strip(line)).val>>})
           /\ IF s.failed_attempts = failed_attempts
              THEN pc' = pc /\ result' = result
              ELSE pc' = "ABORTED" /\ result' = [error |-> "Exception"]
    /\ UNCHANGED <<file, tvars>>

\* sensitivity variant for C18: no handler around the processing of a line, so
\* an exception raised while an accepted line is counted ends the run
ProcessLine_Unguarded(line) ==
    /\ pc = "STREAMING"
    /\ total_lines_processed < MaxLines
    /\ \E s \in LoopBody(Locals, line) :
           /\ SetLocals(s)
           /\ accepted' = IF s.total_requests = total_requests THEN accepted
                          ELSE accepted (+) SetToBag({<<parse_ip(Strip(line)).val,
                                                       parse_request(Strip(line)).val[2],
                                                       parse_timestamp(Strip(line)).val>>})
           /\ IF s.statuses # statuses /\ s.status_groups = status_groups
              THEN pc' = "ABORTED" /\ result' = [error |-> "KeyError"]
              ELSE pc' = pc /\ result' = result
    /\ UNCHANGED <<file, tvars>>

\* lines 249-340: the next line of the file is read and processed
ProcessLine(line) ==
    /\ pc = "STREAMING"
    /\ total_lines_processed < MaxLines
    /\ \E s \in LoopBody(Locals, line) :
           /\ SetLocals(s)
           /\ accepted' = IF s.total_requests = total_requests THEN accepted
                          ELSE accepted (+) SetToBag({<<parse_ip(Strip(line)).val,
                                                       parse_request(Strip(line)).val[2],
                                                       parse_timestamp(Strip(line)).val>>})
    /\ UNCHANGED <<pc, file, result, tvars>>

\* sensitivity variant for C16: a read error returns what was gathered so far
\* next to the error
ReadError_PartialReport ==
    /\ pc = "STREAMING"
    /\ pc' = "ABORTED"
    /\ result' = [section \in DOMAIN Report(Locals) \cup {"error"} |->
                      IF section = "error" THEN "OSError" ELSE Report(Locals)[section]]
    /\ UNCHANGED <<file, locals, accepted, tvars>>

\* lines 347-349: reading the next line raises (an I/O or a decoding error)
ReadError ==
    /\ pc = "STREAMING"
    /\ pc' = "ABORTED"
    /\ result' = [error |-> "OSError"]
    /\ UNCHANGED <<file, locals, accepted, tvars>>

\* line 342: the file is exhausted
EndOfFile ==
    /\ pc = "STREAMING"
    /\ pc' = "FINALIZE"
    /\ UNCHANGED <<file, locals, result, accepted, tvars>>

\* lines 351-435: the report is assembled and returned
Finalize ==
    /\ pc = "FINALIZE"
    /\ pc' = "DONE"
    /\ result' = Report(Locals)
    /\ UNCHANGED <<file, locals, accepted, tvars>>

Next ==
    \/ Start
    \/ \E line \in Lines : ProcessLine(line)
    \/ ReadError
    \/ EndOfFile
    \/ Finalize

Spec == Init /\ [][Next]_vars

\* a run on a file that opens and whose every read succeeds: the loop of lines
\* 249-340 takes the lines one after the other until the file, which is
\* finite, is exhausted, and the function then runs to its return
InitLive == Init /\ file.exists /\ file.readable

\* the lines of such a file: accepted lines, a line that raises while it is
\* counted, lines with an invalid field, text that matches nothing, a comment
LiveLines ==
    {LogLine(IP1, T1, R1, "200", "1234"), LogLine(IP2, T2, R2, "200", "80"),
     LogLine(IP1, T1, R1, "100", "1234"),
     LogLine(IP1, T1, R1, "999", "1234"), LogLine(IP1, TBad, R1, "200", "1234"),
     TextLine("oops"), TextLine("# c")}

NextLive ==
    \/ Start
    \/ \E line \in LiveLines : ProcessLine(line)
    \/ EndOfFile
    \/ Finalize

SpecLive == InitLive /\ [][NextLive]_vars /\ WF_vars(NextLive)

-----------------------------------------------------------------------------
(* Claims about the stand-alone tracker (SpecTracker). *)

\* the items that were ever added
Added == {i \in Items : true_count[i] > 0}

\* the keys of the count map that are not candidates
NonCandidates(t) == DictKeySet(t.counts) \ HeapItems(t)

\* item is among the k most frequent items of the stream
InTrueTopK(item, k) ==
    /\ true_count[item] > 0
    /\ Cardinality({j \in Items : true_count[j] > true_count[item]}) < k

\* a list of (item, count) pairs has non-increasing counts
CountsDescend(out) == \A i, j \in 1..Len(out) : i < j => out[i][2] >= out[j][2]

\* C3: after at most K add calls, get_top_k(K) lists every added item exactly
\* once, with its true number of occurrences, by descending count.
C3_ExactWithinCapacity ==
    tracker.total_adds <= tracker.k =>
        LET out == get_top_k(tracker, tracker.k)
        IN  /\ {out[i][1] : i \in 1..Len(out)} = Added
            /\ Len(out) = Cardinality(Added)
            /\ \A i \in 1..Len(out) : out[i][2] = true_count[out[i][1]]
            /\ CountsDescend(out)

\* C3 witness: K = 3 adds were made, of two items with different frequencies
C3_Witness ==
    /\ tracker.k = 3
    /\ tracker.total_adds = 3
    /\ \E i, j \in Items : true_count[i] = 2 /\ true_count[j] = 1

\* C4: prune deletes no candidate, and deletes at least one non-candidate when
\* the count map holds more than K items and a non-candidate exists.
C4_PruneSparesCandidates ==
    \A percent \in PrunePercents :
        LET after == prune(tracker, percent)
        IN  /\ HeapItems(tracker) \subseteq DictKeySet(after.counts)
            /\ after.heap = tracker.heap
            /\ (Len(tracker.counts) > tracker.k /\ NonCandidates(tracker) # {})
                   => \E i \in NonCandidates(tracker) : i \notin DictKeySet(after.counts)

\* C4 witness: a prune has deleted an item, and the count map is again larger
\* than K with a non-candidate in it
C4_Witness ==
    /\ \E i \in Items : prune_hits[i] > 0
    /\ Len(tracker.counts) > tracker.k
    /\ NonCandidates(tracker) # {}

\* C5: get_top_k(n) returns at most min(n, candidate-set size) pairs, each a
\* candidate with its current count in the count map, counts non-increasing.
C5_TopKShape ==
    \A n \in 0..(MaxK + 1) :
        LET out == get_top_k(tracker, n)
        IN  /\ Len(out) <= Min(n, Len(tracker.heap))
            /\ \A i \in 1..Len(out) :
                   /\ out[i][1] \in HeapItems(tracker)
                   /\ out[i][1] \in DictKeySet(tracker.counts)
                   /\ out[i][2] = DictGet(tracker.counts, out[i][1])
            /\ CountsDescend(out)

\* C5 witness: after adds and a prune that deleted something, get_top_k lists
\* two candidates with different counts
C5_Witness ==
    /\ \E i \in Items : prune_hits[i] > 0
    /\ LET out == get_top_k_all(tracker)
       IN  Len(out) >= 2 /\ out[1][2] > out[2][2]

\* C6 (as claimed): after add calls only, tied items appear in the order in
\* which they entered the candidate set.
C6_TiesByInsertionOrder ==
    (\A item \in Items : prune_hits[item] = 0) =>
        LET out == get_top_k_all(tracker)
        IN  \A i, j \in 1..Len(out) :
                (i < j /\ out[i][2] = out[j][2]) => entered[out[i][1]] < entered[out[j][1]]

\* C7 (as claimed): for an item among the true top-K the reported count is at
\* least the true frequency minus what one prune deleted for it.
C7_OnePruneCycleBound ==
    LET out == get_top_k_all(tracker)
    IN  \A i \in 1..Len(out) :
            InTrueTopK(out[i][1], tracker.k) =>
                out[i][2] >= true_count[out[i][1]] - max_lost[out[i][1]]

\* C7 (amended): the reported count of a listed item is its true frequency
\* minus the total prune deleted for it, over every prune that deleted it; the
\* shortfall is within one prune's deletion for items deleted at most once.
C7_ShortfallIsAllPrunes ==
    LET out == get_top_k_all(tracker)
    IN  \A i \in 1..Len(out) :
            /\ out[i][2] = true_count[out[i][1]] - lost[out[i][1]]
            /\ prune_hits[out[i][1]] <= 1
                   => out[i][2] >= true_count[out[i][1]] - max_lost[out[i][1]]

\* C7 witness: a listed item of the true top-K whose count prune deleted twice
C7_Witness ==
    LET out == get_top_k_all(tracker)
    IN  \E i \in 1..Len(out) :
            /\ InTrueTopK(out[i][1], tracker.k)
            /\ prune_hits[out[i][1]] >= 2

-----------------------------------------------------------------------------
(* Claims about the pipeline (Spec). *)

\* the sum of the values of a dict
RECURSIVE DictTotal(_)
DictTotal(d) == IF d = <<>> THEN 0 ELSE d[1][2] + DictTotal(Tail(d))

\* the loop is about to read a next line
Reading == pc = "STREAMING" /\ total_lines_processed < MaxLines

\* the locals once the next line is counted and the cadence step of lines
\* 252-260 is done, before the line is looked at
AfterCadence ==
    Cadence([Locals EXCEPT !.total_lines_processed = @ + 1], total_lines_processed + 1)

\* the IP, URL and minute trackers of a bounded mode, or the counters of FULL
Counted(s) ==
    IF s.use_top_k THEN <<s.ips_tracker, s.urls_tracker, s.minutes_tracker>>
    ELSE <<s.ips_counter, s.urls_counter, s.minutes_counter>>

\* the number of occurrences tracker or counter i of the locals s holds
CountOf(s, i) ==
    IF s.use_top_k THEN DictTotal(Counted(s)[i].counts) ELSE DictTotal(Counted(s)[i])

Aggregates(s) == <<s.total_requests, Counted(s), s.statuses, s.status_groups, s.methods>>

SizeStats(s) == <<s.total_size, s.size_count, s.min_size, s.max_size>>

\* from the locals s to t every aggregate went up by exactly one, and no
\* failure was recorded
FullyAccepted(s, t) ==
    /\ t.total_requests = s.total_requests + 1
    /\ \A i \in 1..3 : CountOf(t, i) = CountOf(s, i) + 1
    /\ DictTotal(t.statuses) = DictTotal(s.statuses) + 1
    /\ DictTotal(t.status_groups) = DictTotal(s.status_groups) + 1
    /\ DictTotal(t.methods) = DictTotal(s.methods) + 1
    /\ t.failed_attempts = s.failed_attempts

\* from the locals s to t no aggregate changed
FullyRejected(s, t) == Aggregates(t) = Aggregates(s) /\ SizeStats(t) = SizeStats(s)

\* C1 (as claimed): after every processed line and in the final report,
\* total_requests is the sum of the five status-group counts.
C1_TotalIsSumOfGroups ==
    /\ (pc \in {"STREAMING", "FINALIZE", "DONE"})
           => total_requests = DictTotal(status_groups)
    /\ (pc = "DONE")
           => result.summary.total_requests
                  = DictTotal(result.health_metrics.status_groups)

\* C2 (as claimed): a processed line either raises every aggregate by exactly
\* one and records no failure, or changes no aggregate.
C2_NoPartialCredit ==
    [][(pc = "STREAMING" /\ pc' = "STREAMING"
            /\ total_lines_processed' = total_lines_processed + 1)
          => (FullyAccepted(AfterCadence, Locals') \/ FullyRejected(AfterCadence, Locals'))]_vars

\* the number of lines so far that incremented total_requests, among the
\* <<IP, path, minute>> triples of the set S
RECURSIVE AcceptedIn(_)
AcceptedIn(S) ==
    IF S = {} THEN 0
    ELSE LET e == CHOOSE x \in S : TRUE
         IN  CopiesIn(e, accepted) + AcceptedIn(S \ {e})

\* the number of lines so far that incremented total_requests and whose field
\* f (1 the IP, 2 the path, 3 the minute) is v
AcceptedWith(f, v) == AcceptedIn({e \in BagToSet(accepted) : e[f] = v})

\* the values of field f of the lines that incremented total_requests
AcceptedValues(f) == {e[f] : e \in BagToSet(accepted)}

\* a counter holds exactly those values, each once, with its exact count
ExactCounter(counter, f) ==
    /\ DictKeySet(counter) = AcceptedValues(f)
    /\ Len(counter) = Cardinality(AcceptedValues(f))
    /\ \A i \in 1..Len(counter) : counter[i][2] = AcceptedWith(f, counter[i][1])

\* a top list holds the values (up to TOP_N_RESULTS of them), each once, with
\* its exact count, by descending count
ExactTopList(top, f) ==
    /\ Len(top) = Min(TOP_N_RESULTS, Cardinality(AcceptedValues(f)))
    /\ Cardinality({top[i][1] : i \in 1..Len(top)}) = Len(top)
    /\ \A i \in 1..Len(top) :
           top[i][1] \in AcceptedValues(f) /\ top[i][2] = AcceptedWith(f, top[i][1])
    /\ CountsDescend(top)

\* C8: in FULL mode there is no tracker, the cadence step changes nothing, each
\* counter holds for each IP, path and minute the exact number of lines that
\* incremented total_requests with it, and the reported top lists carry those
\* counts.
C8_FullModeIsExact ==
    memory_mode = "FULL" =>
        /\ ~use_top_k
        /\ ips_tracker = Unbound /\ urls_tracker = Unbound /\ minutes_tracker = Unbound
        /\ \A n \in 1..(MaxLines + 1) : Cadence(Locals, n) = Locals
        /\ ExactCounter(ips_counter, 1)
        /\ ExactCounter(urls_counter, 2)
        /\ ExactCounter(minutes_counter, 3)
        /\ (pc = "DONE") =>
               /\ ExactTopList(result.traffic_analysis.top_ips, 1)
               /\ ExactTopList(result.traffic_analysis.top_urls, 2)
               /\ ExactTopList(result.traffic_analysis.top_minutes, 3)

\* C8 witness: a FULL-mode report over a file whose cadence line was reached,
\* with two IPs of different counts and two paths
C8_Witness ==
    /\ pc = "DONE"
    /\ memory_mode = "FULL"
    /\ total_lines_processed >= PRUNE_EVERY_N_LINES
    /\ Len(result.traffic_analysis.top_ips) = 2
    /\ result.traffic_analysis.top_ips[1][2] > result.traffic_analysis.top_ips[2][2]
    /\ Len(result.traffic_analysis.top_urls) = 2

\* the reason of the first field of the line that does not validate, in the
\* order timestamp, IP, status, request
FirstFailure(line) ==
    IF "timestamp" \in InvalidFields(line) THEN "timestamp_error"
    ELSE IF "ip" \in InvalidFields(line) THEN "ip_error"
    ELSE IF "status" \in InvalidFields(line) THEN "status_error"
    ELSE "request_error"

\* the lines that are neither blank nor comments and do not match the pattern
NoMatchLines == {TextLine("oops"), LogLine(IP1, T1, R1, "20", "1234")}

\* the entry of the failure store fa for the line key
FailureOf(fa, key) == fa[CHOOSE i \in 1..Len(fa) : fa[i][1] = key][2]

\* the failure store fa2 is fa after the line key was handed to it once with
\* the reason: below the cap of the store the entry of key has the reason and a
\* count one higher and nothing else changed; at the cap the store is as it was
RecordedOnce(fa, fa2, key, reason) ==
    IF Len(fa) >= FAILED_ATTEMPTS_CAP THEN fa2 = fa
    ELSE /\ DictKeySet(fa2) = DictKeySet(fa) \cup {key}
         /\ Len(fa2) = Cardinality(DictKeySet(fa2))
         /\ FailureOf(fa2, key).reason = reason
         /\ FailureOf(fa2, key).count
                = 1 + (IF key \in DictKeySet(fa) THEN FailureOf(fa, key).count ELSE 0)
         /\ \A k \in DictKeySet(fa) \ {key} : FailureOf(fa2, k) = FailureOf(fa, k)

C10_Status999IsStatusError ==
    [][\A line \in {l \in Lines : l.status = "999"} :
          ProcessLine(line) =>
              /\ FullyRejected(AfterCadence, Locals')
              /\ RecordedOnce(failed_attempts, failed_attempts', Strip(line),
                              "status_error")]_vars

\* C10 (amended): wherever the loop reads a next line, a line with status 999
\* changes no aggregate, whatever its other fields, and is recorded with the
\* reason of its first invalid field: timestamp_error or ip_error when its
\* timestamp or IP is invalid, status_error otherwise.
C10_Status999Rejected ==
    Reading =>
        \A line \in {l \in Lines : l.status = "999"} :
            \A s \in LoopBody(Locals, line) :
                /\ FullyRejected(AfterCadence, s)
                /\ RecordedOnce(failed_attempts, s.failed_attempts, Strip(line),
                                IF line.timestamp = TBad THEN "timestamp_error"
                                ELSE IF line.ip = IPBad THEN "ip_error"
                                ELSE "status_error")

\* C10 witness: the store holds a line with status 999 as status_error and
\* another, with an invalid IP, as ip_error
C10_Witness ==
    /\ \E i \in 1..Len(failed_attempts) :
           /\ failed_attempts[i][1].status = "999"
           /\ failed_attempts[i][2].reason = "status_error"
    /\ \E i \in 1..Len(failed_attempts) :
           /\ failed_attempts[i][1].status = "999"
           /\ failed_attempts[i][2].reason = "ip_error"

\* the minute bucket, the method and the path the model's valid timestamps and
\* requests stand for, and the size a line carries (<<>> for "-")
ExpectedMinute(timestamp) == IF timestamp = T1 THEN "2023-10-10 12:00" ELSE "2023-10-10 12:01"

ExpectedMethod(request) == IF request = R1 THEN "GET" ELSE "POST"

ExpectedPath(request) == IF request = R1 THEN "/index.html" ELSE "/login"

ExpectedSize(size) == IF size = "1234" THEN <<1234>> ELSE IF size = "80" THEN <<80>> ELSE <<>>

\* the lines that match the pattern and whose four fields validate
AcceptableLines ==
    ValidLines \cup {[LogLine(IP2, T2, R2, "200", "80") EXCEPT !.bom = TRUE, !.eol = "\r\n"]}

\* the count tracker or counter i of the locals s holds for the key
KeyCount(s, i, key) ==
    IF s.use_top_k THEN DictGet(Counted(s)[i].counts, key) ELSE DictGet(Counted(s)[i], key)

\* from the locals s to t the line was accepted: each of its counts went up by
\* one, its size entered the size statistics, and no failure was recorded
AcceptedExactly(s, t, line) ==
    LET size == ExpectedSize(line.size)
    IN  /\ t.total_requests = s.total_requests + 1
        /\ KeyCount(t, 1, line.ip) = KeyCount(s, 1, line.ip) + 1
        /\ KeyCount(t, 2, ExpectedPath(line.request))
               = KeyCount(s, 2, ExpectedPath(line.request)) + 1
        /\ KeyCount(t, 3, ExpectedMinute(line.timestamp))
               = KeyCount(s, 3, ExpectedMinute(line.timestamp)) + 1
        /\ \A i \in 1..3 : CountOf(t, i) = CountOf(s, i) + 1
        /\ DictGet(t.statuses, line.status) = DictGet(s.statuses, line.status) + 1
        /\ DictGet(t.status_groups, SubSeq(line.status, 1, 1) \o "xx")
               = DictGet(s.status_groups, SubSeq(line.status, 1, 1) \o "xx") + 1
        /\ DictGet(t.methods, ExpectedMethod(line.request))
               = DictGet(s.methods, ExpectedMethod(line.request)) + 1
        /\ DictTotal(t.statuses) = DictTotal(s.statuses) + 1
        /\ DictTotal(t.status_groups) = DictTotal(s.status_groups) + 1
        /\ DictTotal(t.methods) = DictTotal(s.methods) + 1
        /\ IF size = <<>> THEN SizeStats(t) = SizeStats(s)
           ELSE /\ t.total_size = s.total_size + size[1]
                /\ t.size_count = s.size_count + 1
                /\ t.min_size = IF s.min_size = <<>> THEN size
                                ELSE <<Min(s.min_size[1], size[1])>>
                /\ t.max_size = IF s.max_size = <<>> THEN size
                                ELSE <<Max(s.max_size[1], size[1])>>
        /\ t.failed_attempts = s.failed_attempts

\* C11 (as claimed): wherever the loop reads a next line, a line that matches the
\* pattern and whose timestamp, IP, status (100 to 599) and request validate
\* is accepted: every count of it goes up by exactly one, its size is added to
\* the size statistics and no failure is recorded.
C11_ValidLineAccepted ==
    Reading =>
        \A line \in AcceptableLines :
            \A s \in LoopBody(Locals, line) : AcceptedExactly(AfterCadence, s, line)

-----------------------------------------------------------------------------
(* Mode selection alone: analyze_log_optimized up to the opening of the file, *)
(* for files of sizes around the two thresholds.                            *)

\* file sizes in MB, each taken also one byte below and one byte above; the
\* sizes stay below 2^31 bytes, the largest integers of the checker
ModeSizesMB == {1, 50, 99, 100, 101, 500, 999, 1000, 1001, 1500, 2000, 2047}

ModeFiles ==
    LET sizes == {0} \cup {mb * BYTES_PER_MB + d : mb \in ModeSizesMB, d \in {0 - 1, 0, 1}}
    IN  {[exists |-> TRUE, readable |-> r, size |-> sz] : r \in BOOLEAN, sz \in sizes}
        \cup {[exists |-> FALSE, readable |-> FALSE, size |-> 0]}

InitMode ==
    /\ NoTracker
    /\ pc = "INIT"
    /\ file \in ModeFiles
    /\ memory_mode = "-" /\ limits = <<>> /\ use_top_k = FALSE
    /\ total_requests = 0 /\ total_lines_processed = 0
    /\ total_size = 0 /\ size_count = 0 /\ min_size = <<>> /\ max_size = <<>>
    /\ failed_attempts = <<>>
    /\ ips_tracker = Unbound /\ urls_tracker = Unbound /\ minutes_tracker = Unbound
    /\ ips_counter = UnboundCounter /\ urls_counter = UnboundCounter
    /\ minutes_counter = UnboundCounter
    /\ statuses = <<>> /\ status_groups = <<>> /\ methods = <<>>
    /\ result = <<>>
    /\ accepted = EmptyBag

NextMode == Start

SpecMode == InitMode /\ [][NextMode]_vars

\* C12: every file size selects exactly one mode: below 100 MB, or with the
\* size unavailable, FULL with caps 0 (unbounded); from 100 MB to below 1000 MB
\* BALANCED with the configured caps; from 1000 MB on AGGRESSIVE with each cap
\* half the BALANCED cap; trackers are used exactly when the mode is not FULL.
C12_ModeBySize ==
    (pc # "INIT" /\ total_lines_processed = 0) =>
        LET mb == 1024 * 1024
            caps == [max_ips |-> MAX_UNIQUE_IPS, max_urls |-> MAX_UNIQUE_URLS,
                     max_minutes |-> MAX_UNIQUE_MINUTES]
        IN  /\ memory_mode \in {"FULL", "BALANCED", "AGGRESSIVE"}
            /\ (memory_mode = "FULL") <=> (~file.exists \/ file.size < 100 * mb)
            /\ (memory_mode = "BALANCED")
                   <=> (file.exists /\ 100 * mb <= file.size /\ file.size < 1000 * mb)
            /\ (memory_mode = "AGGRESSIVE") <=> (file.exists /\ file.size >= 1000 * mb)
            /\ (memory_mode = "FULL")
                   => limits = [max_ips |-> 0, max_urls |-> 0, max_minutes |-> 0]
            /\ (memory_mode = "BALANCED") => limits = caps
            /\ (memory_mode = "AGGRESSIVE")
                   => \A c \in DOMAIN caps :
                          2 * limits[c] <= caps[c] /\ caps[c] <= 2 * limits[c] + 1
            /\ use_top_k <=> (memory_mode # "FULL")
            /\ IF memory_mode # "FULL"
               THEN /\ ips_tracker = NewTracker(limits.max_ips)
                    /\ urls_tracker = NewTracker(limits.max_urls)
                    /\ minutes_tracker = NewTracker(limits.max_minutes)
                    /\ ips_counter = UnboundCounter /\ urls_counter = UnboundCounter
                    /\ minutes_counter = UnboundCounter
               ELSE /\ ips_tracker = Unbound /\ urls_tracker = Unbound
                    /\ minutes_tracker = Unbound
                    /\ ips_counter = <<>> /\ urls_counter = <<>> /\ minutes_counter = <<>>

\* C12 witness: a file of exactly 1000 MB was given AGGRESSIVE, with trackers
C12_Witness ==
    /\ pc = "STREAMING"
    /\ file.size = 1000 * 1024 * 1024
    /\ memory_mode = "AGGRESSIVE"
    /\ use_top_k

-----------------------------------------------------------------------------
(* Claims about the failure store and the cadence (Spec). *)

\* C13 (as claimed): record_failure on a line that is already a key of the
\* store raises that entry's count by one whatever the size of the store, also
\* at the cap; only new keys are limited to a store below the cap.
C13_ExistingKeyCountedAtCap ==
    /\ \A i \in 1..Len(failed_attempts) :
           LET key == failed_attempts[i][1]
               after == record_failure(failed_attempts, key, failed_attempts[i][2].reason)
           IN  /\ DictKeys(after) = DictKeys(failed_attempts)
               /\ FailureOf(after, key).count = failed_attempts[i][2].count + 1
    /\ \A line \in FieldLines :
           (Strip(line) \notin DictKeySet(failed_attempts)) =>
               LET after == record_failure(failed_attempts, Strip(line), FirstFailure(line))
               IN  IF Len(failed_attempts) < FAILED_ATTEMPTS_CAP
                   THEN Len(after) = Len(failed_attempts) + 1
                   ELSE after = failed_attempts

\* the lines for which a failure is recorded: an invalid field, no match of the
\* pattern, or the exception raised while a line with a 1xx status is counted
FailingLines == FieldLines \cup NoMatchLines \cup {LogLine(IP1, T1, R1, "100", "1234")}

\* C14: the failure store never holds more than the cap of distinct lines; at
\* the cap a next failing line that is not yet a key leaves the store as it is;
\* a line that fails validation or the pattern changes no aggregate, and what
\* the line whose counting raises does to total_requests, the trackers, the
\* counters and the size statistics is the same whatever the store holds.
C14_StoreBoundedAndInert ==
    /\ Len(failed_attempts) <= FAILED_ATTEMPTS_CAP
    /\ Cardinality(DictKeySet(failed_attempts)) = Len(failed_attempts)
    /\ Reading =>
           /\ LET before == AfterCadence
                  keys == DictKeySet(failed_attempts)
              IN  \A line \in FailingLines :
                      \A s \in LoopBody(Locals, line) :
                          /\ Len(s.failed_attempts) <= FAILED_ATTEMPTS_CAP
                          /\ (Len(failed_attempts) = FAILED_ATTEMPTS_CAP
                                  /\ Strip(line) \notin keys)
                                 => s.failed_attempts = failed_attempts
                          /\ (line \in FieldLines \cup NoMatchLines)
                                 => FullyRejected(before, s)
           /\ \A line \in FailingLines \ (FieldLines \cup NoMatchLines) :
                  {<<Aggregates(s), SizeStats(s)>> : s \in LoopBody(Locals, line)}
                      = {<<Aggregates(s), SizeStats(s)>> :
                            s \in LoopBody([Locals EXCEPT !.failed_attempts = <<>>], line)}

\* C14 witness: the store is at its cap and a next failing line that is not a
\* key of it is dropped
C14_Witness ==
    /\ Reading
    /\ Len(failed_attempts) = FAILED_ATTEMPTS_CAP
    /\ \E line \in FailingLines :
           /\ Strip(line) \notin DictKeySet(failed_attempts)
           /\ \A s \in LoopBody(Locals, line) : s.failed_attempts = failed_attempts

\* the cadence step is due on the line the loop reads next
CadenceDue ==
    /\ Reading
    /\ (total_lines_processed + 1) % PROGRESS_EVERY_N_LINES = 0
    /\ (total_lines_processed + 1) % PRUNE_EVERY_N_LINES = 0

\* the prune percentage of a bounded mode
PrunePercentOf(mode) == IF mode = "BALANCED" THEN 5 ELSE 20

\* C15 (as claimed): at every cadence point of a bounded mode each of the three
\* trackers (IPs, URLs, minutes) is what prune makes of it, and in FULL mode
\* the cadence step changes nothing but the line count.
C15_CadencePrunesEachTracker ==
    CadenceDue =>
        IF use_top_k
        THEN /\ AfterCadence.ips_tracker = prune(ips_tracker, PrunePercentOf(memory_mode))
             /\ AfterCadence.urls_tracker = prune(urls_tracker, PrunePercentOf(memory_mode))
             /\ AfterCadence.minutes_tracker =
                    prune(minutes_tracker, PrunePercentOf(memory_mode))
        ELSE AfterCadence = [Locals EXCEPT !.total_lines_processed = @ + 1]

\* what the code does at a cadence point: the IP and URL trackers are pruned,
\* the minute tracker is left as it was even where prune would remove a count
C15_MinuteTrackerNeverPruned ==
    CadenceDue /\ use_top_k =>
        /\ AfterCadence.ips_tracker = prune(ips_tracker, PrunePercentOf(memory_mode))
        /\ AfterCadence.urls_tracker = prune(urls_tracker, PrunePercentOf(memory_mode))
        /\ AfterCadence.minutes_tracker = minutes_tracker

\* a cadence point where prune would remove a count of the minute tracker
C15_MinutePrunable ==
    /\ CadenceDue /\ use_top_k
    /\ prune(minutes_tracker, PrunePercentOf(memory_mode)) # minutes_tracker

-----------------------------------------------------------------------------
(* Claims about the run as a whole (Spec). *)

\* the sections of a report (lines 392-435)
ReportSections ==
    {"summary", "health_metrics", "traffic_analysis", "size_analysis", "memory_optimization"}

\* C16: a file that cannot be opened ends the run in the error result, and the
\* result of an aborted run, whether the open failed or a read failed after
\* lines were processed, is the error alone, with none of the report sections;
\* nothing is returned before the run has ended.
C16_ErrorResultHasNoReport ==
    /\ (pc # "INIT" /\ ~(file.exists /\ file.readable)) => pc = "ABORTED"
    /\ (pc = "ABORTED") =>
           /\ "error" \in DOMAIN result
           /\ DOMAIN result \cap ReportSections = {}
    /\ (pc \in {"INIT", "STREAMING", "FINALIZE"}) => DOMAIN result = {}

\* a read fails after lines were accepted and failures recorded
C16_Witness ==
    /\ pc = "ABORTED"
    /\ file.exists /\ file.readable
    /\ total_requests > 0
    /\ failed_attempts # <<>>

\* the moves of the pipeline
PipelineMoves ==
    {<<"INIT", "STREAMING">>, <<"STREAMING", "STREAMING">>, <<"STREAMING", "FINALIZE">>,
     <<"FINALIZE", "DONE">>, <<"INIT", "ABORTED">>, <<"STREAMING", "ABORTED">>}

\* the mode is selected and the trackers or counters exist
Allocated ==
    /\ memory_mode \in {"FULL", "BALANCED", "AGGRESSIVE"}
    /\ memory_mode = get_memory_mode_for_file(file).mode
    /\ limits = get_memory_mode_for_file(file).limits
    /\ use_top_k <=> limits.max_ips > 0
    /\ IF use_top_k
       THEN /\ ips_tracker.k = limits.max_ips
            /\ urls_tracker.k = limits.max_urls
            /\ minutes_tracker.k = limits.max_minutes
       ELSE /\ ips_counter # UnboundCounter /\ urls_counter # UnboundCounter
            /\ minutes_counter # UnboundCounter

\* a step of the pipeline: it follows INIT -> STREAMING -> FINALIZE -> DONE or
\* aborts; it aborts from INIT only when the file cannot be opened and from
\* STREAMING only on a read error, without a line being processed; a step that
\* processes a line, whatever failure it records, stays in STREAMING.
C17_Step ==
    /\ <<pc, pc'>> \in PipelineMoves
    /\ (pc = "INIT" /\ pc' = "ABORTED") =>
           /\ ~(file.exists /\ file.readable)
           /\ result'.error \in {"FileNotFoundError", "PermissionError"}
    /\ (pc = "INIT" /\ pc' = "STREAMING") => file.exists /\ file.readable
    /\ (pc = "STREAMING" /\ pc' = "ABORTED") =>
           /\ total_lines_processed' = total_lines_processed
           /\ failed_attempts' = failed_attempts
           /\ result'.error = "OSError"
    /\ (total_lines_processed' # total_lines_processed) =>
           /\ pc = "STREAMING" /\ pc' = "STREAMING"
           /\ total_lines_processed' = total_lines_processed + 1
    /\ (failed_attempts' # failed_attempts) => pc' = "STREAMING"

\* C17: the pipeline moves only along INIT -> STREAMING -> FINALIZE -> DONE; the
\* mode is selected and the trackers are allocated before a line is read;
\* ABORTED is entered only by a failed open or a read error; no per-line
\* failure leads to ABORTED, and after any failures the loop can process
\* whatever line comes next.
C17_PipelineOrder ==
    /\ [][C17_Step]_vars
    /\ []((pc \in {"STREAMING", "FINALIZE", "DONE"} \/ total_lines_processed > 0)
              => Allocated)
    /\ [](Reading => \A line \in Lines : LoopBody(Locals, line) # {})

\* a run that recorded an unexpected error and a line that matched nothing,
\* processed a further line and completed
C17_Witness ==
    /\ pc = "DONE"
    /\ total_lines_processed = MaxLines
    /\ \E i \in 1..Len(failed_attempts) : failed_attempts[i][2].reason = "unexpected_error"
    /\ \E i \in 1..Len(failed_attempts) : failed_attempts[i][2].reason = "regex_no_match"

-----------------------------------------------------------------------------
(* Termination of a run whose file opens and reads (SpecLive). *)

\* C18: a run on a file that opens and reads without error eventually is DONE
\* with a report of exactly the five sections, whose summary counts every line
\* read, whatever lines were malformed or raised while they were processed;
\* it never ends in the error result.
C18_CompleteReport ==
    /\ <>(/\ pc = "DONE"
          /\ DOMAIN result = ReportSections
          /\ result.summary.total_lines = total_lines_processed
          /\ result.memory_optimization.failed_attempts_count = Len(failed_attempts))
    /\ [](pc # "ABORTED")

\* a completed run none of whose lines was fully accepted and one of whose
\* lines raised while it was processed
C18_Witness ==
    /\ pc = "DONE"
    /\ total_lines_processed = MaxLines
    /\ DictTotal(status_groups) = 0
    /\ \E i \in 1..Len(failed_attempts) : failed_attempts[i][2].reason = "unexpected_error"
    /\ DOMAIN result = ReportSections

-----------------------------------------------------------------------------
(* Repeatability of FULL mode (Spec). *)

\* C19: in FULL mode a run is a function of its file and its sequence of lines.
\* The start has one outcome; wherever the loop reads a next line, the line has
\* exactly one outcome, so two runs that agree so far agree after it on every
\* counter and on the three top lists with the order of their ties; and the
\* report of a finished run is the one built from those locals.
C19_FullModeRepeatable ==
    /\ (Reading /\ memory_mode = "FULL") =>
           \A line \in Lines :
               \A s1, s2 \in LoopBody(Locals, line) :
                   /\ Aggregates(s1) = Aggregates(s2)
                   /\ Counted(s1) = Counted(s2)
                   /\ TopLists(s1) = TopLists(s2)
                   /\ s1 = s2
    /\ (pc = "DONE" /\ memory_mode = "FULL") =>
           /\ result = Report(Locals)
           /\ result.traffic_analysis.top_ips = most_common(ips_counter, TOP_N_RESULTS)
           /\ result.traffic_analysis.top_urls = most_common(urls_counter, TOP_N_RESULTS)
           /\ result.traffic_analysis.top_minutes = most_common(minutes_counter, TOP_N_RESULTS)

\* a finished FULL-mode run whose top IPs and top URLs each hold a tie
C19_Witness ==
    /\ pc = "DONE" /\ memory_mode = "FULL"
    /\ Len(result.traffic_analysis.top_ips) >= 2
    /\ result.traffic_analysis.top_ips[1][2] = result.traffic_analysis.top_ips[2][2]
    /\ Len(result.traffic_analysis.top_urls) >= 2
    /\ result.traffic_analysis.top_urls[1][2] = result.traffic_analysis.top_urls[2][2]

-----------------------------------------------------------------------------
(* Skipped lines (Spec). *)

\* lines that are empty once a leading BOM and the line terminators are
\* stripped, and lines that begin with '#', one of them an access-log line
\* commented out
SkippedLines ==
    {TextLine(""), [TextLine("") EXCEPT !.eol = "\r\n"], [TextLine("") EXCEPT !.eol = ""],
     [TextLine("") EXCEPT !.bom = TRUE],
     TextLine("# c"), TextLine("#"), [TextLine("# c") EXCEPT !.bom = TRUE],
     LogLine("#" \o IP1, T1, R1, "200", "1234")}

\* C20: wherever the loop reads a next line, a line that is empty after the
\* BOM and the terminators are stripped, or that begins with '#', is counted
\* as a line and does nothing else: the store of failures, total_requests,
\* the trackers, the counters and the size statistics are what they were when
\* the line was read; the report counts it in total_lines.
C20_SkippedLineOnlyCounted ==
    /\ Reading =>
           \A line \in SkippedLines :
               \A s \in LoopBody(Locals, line) :
                   /\ s.total_lines_processed = total_lines_processed + 1
                   /\ s.failed_attempts = failed_attempts
                   /\ FullyRejected(AfterCadence, s)
                   /\ s = AfterCadence
    /\ (pc = "DONE") => result.summary.total_lines = total_lines_processed

\* a finished run all of whose lines were skipped
C20_Witness ==
    /\ pc = "DONE"
    /\ result.summary.total_lines = MaxLines
    /\ result.summary.total_requests = 0
    /\ result.memory_optimization.failed_attempts_count = 0

-----------------------------------------------------------------------------
(* The size field (Spec). *)

\* lines whose timestamp, IP, status and request validate, with a size that is
\* absent ('-') or digits-only
SizedLines ==
    {LogLine(IP1, T1, R1, status, size) :
        status \in {"200", "404", "100"}, size \in {"-", "0", "80", "1234"}}

\* the size statistics of s once the size n is added to them
WithSize(s, n) ==
    <<s.total_size + n, s.size_count + 1,
      IF s.min_size = <<>> \/ n < s.min_size[1] THEN <<n>> ELSE s.min_size,
      IF s.max_size = <<>> \/ n > s.max_size[1] THEN <<n>> ELSE s.max_size>>

\* from the locals s to t a line with the given size field was accepted whatever
\* its size: total_requests went up, the store of failures is as it was, and
\* the size statistics are unchanged for '-' and updated for digits
SizeHandled(s, t, size) ==
    /\ t.total_requests = s.total_requests + 1
    /\ t.failed_attempts = s.failed_attempts
    /\ IF size = "-" THEN SizeStats(t) = SizeStats(s)
       ELSE SizeStats(t) = WithSize(s, IntOf(size))

\* the size section of the report is all null exactly when no record had a size
SizeReportSound ==
    /\ size_count <= total_requests
    /\ (size_count = 0) <=> (min_size = <<>> /\ max_size = <<>>)
    /\ (size_count = 0) => total_size = 0
    /\ (pc = "DONE") =>
           LET sa == result.size_analysis
           IN  /\ sa.requests_with_size = size_count
               /\ (size_count = 0) =>
                      sa.min_bytes = <<>> /\ sa.max_bytes = <<>>
                      /\ sa.avg_bytes = <<>> /\ sa.total_bytes = <<>>
               /\ (size_count > 0) =>
                      sa.min_bytes = min_size /\ sa.max_bytes = max_size
                      /\ sa.avg_bytes = <<total_size, size_count>>
                      /\ sa.total_bytes = <<total_size>>

\* C21 (as claimed): wherever the loop reads a next line, a line whose other
\* fields validate is accepted with no failure recorded whether its size is
\* '-' (size statistics unchanged) or digits (min, max, total and count
\* updated); the records with a size never outnumber total_requests, and the
\* report's min, max, average and total are null when no record had a size.
C21_SizeNeverGates ==
    /\ SizeReportSound
    /\ Reading =>
           \A line \in SizedLines :
               \A s \in LoopBody(Locals, line) : SizeHandled(AfterCadence, s, line.size)

\* the same for the lines whose status is not in 100-199: this holds
C21_SizeNeverGatesFrom200 ==
    /\ SizeReportSound
    /\ Reading =>
           \A line \in {l \in SizedLines : l.status # "100"} :
               \A s \in LoopBody(Locals, line) : SizeHandled(AfterCadence, s, line.size)

\* a finished run that accepted lines, none of them with a size
C21_NoSizes ==
    /\ pc = "DONE" /\ total_requests >= 2 /\ size_count = 0
    /\ DictTotal(status_groups) = total_requests

-----------------------------------------------------------------------------
(* The trackers of a bounded-mode run (Spec). *)

\* C22: in a bounded mode, in every state from the start of the loop on, the
\* total_adds of the IP tracker, of the URL tracker and of the minute tracker
\* all equal total_requests, and the report shows those numbers; wherever the
\* loop reads a next line, the line raises the three of them by one together
\* with total_requests, or none of them.
C22_OneAddPerAcceptedRecord ==
    /\ (use_top_k /\ pc \in {"STREAMING", "FINALIZE", "DONE", "ABORTED"}) =>
           /\ ips_tracker.total_adds = total_requests
           /\ urls_tracker.total_adds = total_requests
           /\ minutes_tracker.total_adds = total_requests
    /\ (use_top_k /\ pc = "DONE") =>
           \A name \in {"ips", "urls", "minutes"} :
               result.memory_optimization.tracker_stats[name].total_adds
                   = result.summary.total_requests
    /\ (use_top_k /\ Reading) =>
           \A line \in Lines :
               \A s \in LoopBody(Locals, line) :
                   LET d == s.total_requests - total_requests
                   IN  /\ d \in {0, 1}
                       /\ s.ips_tracker.total_adds = ips_tracker.total_adds + d
                       /\ s.urls_tracker.total_adds = urls_tracker.total_adds + d
                       /\ s.minutes_tracker.total_adds = minutes_tracker.total_adds + d

\* a finished bounded-mode run with accepted records of a repeated minute,
\* pruned at the cadence line, and with a failure recorded
C22_Witness ==
    /\ use_top_k /\ pc = "DONE"
    /\ total_lines_processed >= PRUNE_EVERY_N_LINES
    /\ total_requests >= 2
    /\ Len(minutes_tracker.counts) < total_requests
    /\ failed_attempts # <<>>

-----------------------------------------------------------------------------
(* Further claims about the stand-alone tracker (SpecTracker). *)

\* the smallest count recorded in the candidate entries of t
MinMemberCount(t) == CHOOSE c \in {t.heap[i][1] : i \in 1..Len(t.heap)} :
                         \A i \in 1..Len(t.heap) : c <= t.heap[i][1]

\* the counts of t and u agree on every key but item
SameCountsBut(t, u, item) ==
    \A j \in (DictKeySet(t.counts) \cup DictKeySet(u.counts)) \ {item} :
        /\ j \in DictKeySet(t.counts) /\ j \in DictKeySet(u.counts)
        /\ DictGet(u.counts, j) = DictGet(t.counts, j)

\* C23: in every state where the candidate set holds K members, add of an item
\* outside it raises that item's count by one and changes no other count; when
\* the new count exceeds the minimum count among the members, exactly one
\* member, one with that minimum count, leaves the set, the item enters it,
\* the set keeps K members and the evicted item keeps its count; otherwise
\* the candidate set is as it was.
C23_EvictOnlyWhenGreater ==
    (Len(tracker.heap) = tracker.k) =>
        \A item \in Items \ HeapItems(tracker) :
            \A t \in add(tracker, item) :
                LET new_count == DictGet(tracker.counts, item) + 1
                    out == HeapItems(tracker) \ HeapItems(t)
                IN  /\ DictGet(t.counts, item) = new_count
                    /\ SameCountsBut(tracker, t, item)
                    /\ IF new_count > MinMemberCount(tracker)
                       THEN /\ Cardinality(out) = 1
                            /\ \A e \in out :
                                   /\ DictGet(tracker.counts, e) = MinMemberCount(tracker)
                                   /\ DictGet(t.counts, e) = DictGet(tracker.counts, e)
                            /\ HeapItems(t) = (HeapItems(tracker) \ out) \cup {item}
                            /\ Len(t.heap) = tracker.k
                       ELSE t.heap = tracker.heap

\* a full candidate set with members of different counts, and an outsider
\* whose next add exceeds the minimum, next to one whose next add ties it
C23_Witness ==
    /\ Len(tracker.heap) = tracker.k /\ tracker.k >= 2
    /\ \E i \in 1..Len(tracker.heap) : tracker.heap[i][1] > MinMemberCount(tracker)
    /\ \E item \in Items \ HeapItems(tracker) :
           DictGet(tracker.counts, item) + 1 > MinMemberCount(tracker)
    /\ \E item \in Items \ HeapItems(tracker) :
           DictGet(tracker.counts, item) + 1 = MinMemberCount(tracker)
    /\ tracker.total_adds < MaxAdds

\* no prune call has deleted a count so far
NothingPruned == \A i \in Items : prune_hits[i] = 0

\* C24: in every reachable state no item outside the candidate set
\* has a stored count greater than the stored count of a candidate; while the
\* set has fewer than K members every counted item is a candidate; and while
\* nothing has been pruned the candidates are a true top-K of the stream: no
\* outsider was added more often than a candidate.
C24_BestKnownTopK ==
    /\ \A c \in HeapItems(tracker) : \A o \in NonCandidates(tracker) :
           DictGet(tracker.counts, o) <= DictGet(tracker.counts, c)
    /\ (Len(tracker.heap) < tracker.k) => NonCandidates(tracker) = {}
    /\ NothingPruned =>
           /\ \A i \in Added : DictGet(tracker.counts, i) = true_count[i]
           /\ \A c \in HeapItems(tracker) : \A o \in Added \ HeapItems(tracker) :
                  true_count[o] <= true_count[c]

\* nothing was pruned, the candidate set is full, and an item that once was a
\* candidate is outside it, evicted by an item added more often
C24_Witness ==
    /\ NothingPruned
    /\ Len(tracker.heap) = tracker.k /\ tracker.k >= 2
    /\ \E o \in NonCandidates(tracker) :
           /\ entered[o] > 0
           /\ \E c \in HeapItems(tracker) : true_count[c] > true_count[o]

\* the tracker with the insertion-order values of its candidate entries erased
\* (the candidates and all counts as they are)
InsertionOrderErased(t) == {[t EXCEPT !.heap = h] : h \in _update_heap(t)}

\* the candidate sets that add(item) can leave
CandidatesAfterAdd(t, item) == {HeapItems(u) : u \in add(t, item)}

\* C25 (as claimed): in every state with a full candidate set, whether add of
\* an outside item evicts a member, and which member it evicts, is the same
\* as for the tracker that has the same counts and the same candidates with
\* the insertion-order values erased from the entries.
C25_EvictionIgnoresInsertionOrder ==
    (Len(tracker.heap) = tracker.k) =>
        \A item \in Items \ HeapItems(tracker) :
            \A t0 \in InsertionOrderErased(tracker) :
                CandidatesAfterAdd(tracker, item) = CandidatesAfterAdd(t0, item)

\* the part of C25 that holds: whether add evicts depends on the counts alone
C25_WhetherToEvictIgnoresInsertionOrder ==
    (Len(tracker.heap) = tracker.k) =>
        \A item \in Items \ HeapItems(tracker) :
            \A t0 \in InsertionOrderErased(tracker) :
                \A u \in add(tracker, item) : \A u0 \in add(t0, item) :
                    (item \in HeapItems(u)) <=> (item \in HeapItems(u0))

\* percents between 0 and 100, among them shares of two or three items that
\* are not whole numbers
PercentsBetween0And100 == {0, 1, 5, 10, 20, 33, 34, 49, 50, 66, 67, 99, 100}

\* C26: in every reachable state and for every percent between 0 and 100,
\* prune changes nothing when the count map holds at most K items; otherwise,
\* with m the number of non-candidates, it deletes exactly
\* max(1, floor(percent * m / 100)) of them, no deleted item had a count
\* greater than that of a non-candidate that remains, and the candidate
\* entries and every remaining count are as they were.
C26_PruneDeletesLowestShare ==
    \A percent \in PercentsBetween0And100 :
        LET after == prune(tracker, percent)
            m == Cardinality(NonCandidates(tracker))
            deleted == DictKeySet(tracker.counts) \ DictKeySet(after.counts)
        IN  IF Len(tracker.counts) <= tracker.k
            THEN after = tracker
            ELSE /\ m >= 1
                 /\ deleted \subseteq NonCandidates(tracker)
                 /\ Cardinality(deleted) = Max(1, (percent * m) \div 100)
                 /\ \A d \in deleted : \A r \in NonCandidates(tracker) \ deleted :
                        DictGet(tracker.counts, d) <= DictGet(tracker.counts, r)
                 /\ after.heap = tracker.heap
                 /\ DictKeySet(after.counts) \subseteq DictKeySet(tracker.counts)
                 /\ \A r \in DictKeySet(after.counts) :
                        DictGet(after.counts, r) = DictGet(tracker.counts, r)
                 /\ after.k = tracker.k /\ after.total_adds = tracker.total_adds
                 /\ after.insertion_counter = tracker.insertion_counter

\* three non-candidates with different counts: prune(67) deletes two of them
\* and leaves the one with the highest count
C26_Witness ==
    /\ Cardinality(NonCandidates(tracker)) = 3
    /\ \E i, j \in NonCandidates(tracker) :
           DictGet(tracker.counts, i) < DictGet(tracker.counts, j)
    /\ Cardinality(DictKeySet(prune(tracker, 67).counts)) = Len(tracker.counts) - 2

\* the candidate set holds at most K entries, of pairwise different items
CandidatesBounded(t) ==
    /\ Len(t.heap) <= t.k
    /\ \A i, j \in 1..Len(t.heap) : i # j => t.heap[i][3] # t.heap[j][3]

\* C27: in every reachable state the candidate set holds at most K entries and
\* no item twice, and no add or prune call leaves it with fewer entries than
\* it had.
C27_CandidatesBoundedAndGrowing ==
    /\ [](CandidatesBounded(tracker))
    /\ [][Len(tracker'.heap) >= Len(tracker.heap)]_vars

\* a full candidate set of three from which a member was evicted and which
\* was rebuilt after a hit of a member
C27_Witness ==
    /\ tracker.k = 3 /\ Len(tracker.heap) = 3
    /\ \E o \in NonCandidates(tracker) : entered[o] > 0
    /\ \E i \in 1..Len(tracker.heap) : tracker.heap[i][2] = 0

\* the candidate entries of t in the order get_top_k sorts them in: by
\* descending recorded count, then by insertion-order value
SortedEntries(t) ==
    SortedByKey([i \in 1..Len(t.heap) |-> <<0 - t.heap[i][1], t.heap[i][2], t.heap[i][3]>>])

\* C28: in every reachable state each candidate is a key of the count map and
\* its entry records the count the map holds for it, so get_top_k, which
\* sorts by the recorded counts and reports the map's counts, reports each
\* candidate with the count it was sorted by.
C28_EntriesCarryCurrentCounts ==
    /\ \A i \in 1..Len(tracker.heap) :
           /\ tracker.heap[i][3] \in DictKeySet(tracker.counts)
           /\ tracker.heap[i][1] = DictGet(tracker.counts, tracker.heap[i][3])
           /\ tracker.heap[i][1] >= 1
    /\ LET out == get_top_k_all(tracker)
           sorted_items == SortedEntries(tracker)
       IN  /\ Len(out) = Len(sorted_items)
           /\ \A i \in 1..Len(out) :
                  /\ out[i][1] = sorted_items[i][3]
                  /\ out[i][2] = 0 - sorted_items[i][1]

\* a member was hit after it entered, another item was pruned, and the
\* candidates have different counts
C28_Witness ==
    /\ Len(tracker.heap) >= 2
    /\ \E i, j \in 1..Len(tracker.heap) : tracker.heap[i][1] > tracker.heap[j][1] + 1
    /\ \E i \in Items : prune_hits[i] > 0

\* C29: in every reachable state the count stored for an item is at most the
\* number of add calls made for it and equals that number for every item no
\* prune has deleted; get_top_k reports the stored counts; an item that a
\* prune deletes, and any item that is absent from the count map, has the
\* count 1 after its next add.
C29_CountsNeverExceedTruth ==
    /\ \A i \in Items :
           /\ DictGet(tracker.counts, i) <= true_count[i]
           /\ (prune_hits[i] = 0) => DictGet(tracker.counts, i) = true_count[i]
           /\ (i \in DictKeySet(tracker.counts)) => DictGet(tracker.counts, i) >= 1
           /\ (i \notin DictKeySet(tracker.counts)) =>
                  \A t \in add(tracker, i) : DictGet(t.counts, i) = 1
    /\ LET out == get_top_k_all(tracker)
       IN  \A n \in 1..Len(out) : out[n][2] = DictGet(tracker.counts, out[n][1])
    /\ \A percent \in PrunePercents :
           \A i \in PruneRemoved(tracker, percent) :
               /\ i \notin DictKeySet(prune(tracker, percent).counts)
               /\ \A t \in add(prune(tracker, percent), i) : DictGet(t.counts, i) = 1

\* an item added three times whose count a prune deleted at two and that was
\* added again since: its stored count is 1
C29_Witness ==
    \E i \in Items :
        /\ true_count[i] = 3 /\ lost[i] = 2 /\ prune_hits[i] = 1
        /\ DictGet(tracker.counts, i) = 1

-----------------------------------------------------------------------------
(* The TopKTracker of main.py: any sequence of add calls (SpecMain).  The    *)
(* tracker is [k, counts, heap, counter].                                    *)

\* main.py TopKTracker.__init__
main_NewTracker(k) == [k |-> k, counts |-> <<>>, heap |-> <<>>, counter |-> 0]

\* main.py TopKTracker.add: every call below capacity pushes an entry, whether
\* or not the item already has one
main_add(t, item) ==
    LET counts1 == DictIncr(t.counts, item)
        count == DictGet(counts1, item)
        t1 == [t EXCEPT !.counter = @ + 1, !.counts = counts1]
    IN  IF Len(t.heap) < t.k
        THEN [t1 EXCEPT !.heap = heappush(t.heap, <<count, t1.counter, item>>)]
        ELSE IF count > t.heap[1][1]
        THEN [t1 EXCEPT !.heap = heappushpop(t.heap, <<count, t1.counter, item>>)]
        ELSE t1

\* main.py TopKTracker.get_top_k
main_get_top_k(t) ==
    LET sorted_items ==
            SortedByKey([i \in 1..Len(t.heap) |-> <<0 - t.heap[i][1], t.heap[i][2], t.heap[i][3]>>])
    IN  [i \in 1..Len(sorted_items) |->
            <<sorted_items[i][3], DictGet(t.counts, sorted_items[i][3])>>]

InitMain ==
    /\ NoRun
    /\ tracker \in {main_NewTracker(k) : k \in 1..MaxK}
    /\ true_count = ZeroOn(Items)
    /\ prune_hits = ZeroOn(Items)
    /\ lost = ZeroOn(Items)
    /\ max_lost = ZeroOn(Items)
    /\ entered = ZeroOn(Items)

\* a call tracker.add(item) on the tracker of main.py
MainAdd(item) ==
    /\ tracker.counter < MaxAdds
    /\ tracker' = main_add(tracker, item)
    /\ true_count' = [true_count EXCEPT ![item] = @ + 1]
    /\ UNCHANGED <<prune_hits, lost, max_lost, entered>>
    /\ UNCHANGED pvars

NextMain == \E item \in Items : MainAdd(item)

SpecMain == InitMain /\ [][NextMain]_vars

\* C30 (as claimed): after any sequence of add calls on the tracker of main.py
\* the heap holds at most one entry per item and get_top_k lists no item
\* twice.
C30_MainNoDuplicates ==
    /\ \A i, j \in 1..Len(tracker.heap) : i # j => tracker.heap[i][3] # tracker.heap[j][3]
    /\ LET out == main_get_top_k(tracker)
       IN  \A i, j \in 1..Len(out) : i # j => out[i][1] # out[j][1]

\* what holds of the tracker of main.py: at most K entries, each recording a
\* count the item had when the entry was pushed
C30_MainHeapBounded ==
    /\ Len(tracker.heap) <= tracker.k
    /\ \A i \in 1..Len(tracker.heap) :
           /\ tracker.heap[i][1] >= 1
           /\ tracker.heap[i][1] <= DictGet(tracker.counts, tracker.heap[i][3])

====
